---------------------------- MODULE Spec2Model ----------------------------
(***************************************************************************)
(* A model of the balance-sheet aggregation core of the newsletter         *)
(* pipeline: scripts/aggregations/bs_aggregations.py.                      *)
(*                                                                         *)
(*   rows --build_bs_nested_hierarchy--> nested_json                       *)
(*        --format_nested_amounts------> formatted                         *)
(*                                                                         *)
(* and of the scale helpers (_get_scale_info, _get_scale_info_fixed,       *)
(* _format_fixed_scale, format_scaled_amount) applied to single values.    *)
(*                                                                         *)
(* Representation of Python values                                         *)
(*   - an amount of the data frame is an integer;                          *)
(*   - a number handed to the scale helpers is a decimal [m, e], standing  *)
(*     for m * 10^e (the helpers take floats; 1e12 does not fit a TLC      *)
(*     integer, so magnitudes are kept as mantissa and exponent);          *)
(*   - a divisor 10^k is kept as its exponent k (0 is the divisor 1);      *)
(*   - a label (str) is a tuple of one-character strings, so that strip(), *)
(*     lower(), `in` and the ordering of str are computed, not assumed;    *)
(*   - a rendered amount (str) is a record [sym, sign, mag, dec, suf]: the *)
(*     currency prefix, the minus signs printed, the digits as the integer *)
(*     mag with dec fractional digits, and the scale suffix;               *)
(*   - None is NONE, pandas' NA is NA.                                     *)
(***************************************************************************)
EXTENDS Integers, Sequences, FiniteSets, TLC

VARIABLES
    pc,             \* position of the run
    rows,           \* df: the input rows, in input order
    exclude_lines,  \* exclude_lines of build_bs_nested_hierarchy
    currency_type,  \* currency code handed to the formatters
    nested_json,    \* result of build_bs_nested_hierarchy / input of format_nested_amounts
    formatted,      \* result of format_nested_amounts
    shared_nodes,   \* places of nested_json whose dict is also in formatted
    value,          \* a single value handed to the scale helpers
    scale_info,     \* _get_scale_info(value)
    fixed_info,     \* _get_scale_info_fixed(value)
    fixed_text,     \* _format_fixed_scale(value, *fixed_info, 2)
    scaled_text,    \* format_scaled_amount(value, currency_type)
    reparsed,       \* the number read back from fixed_text
    refixed_text,   \* reparsed rendered again with the fixed-scale policy
    prompts,        \* prompts of concurrent_llm_calls, in submission order
    max_workers,    \* max_workers of concurrent_llm_calls
    futures,        \* the submitted worker(idx, prompt) calls, one per prompt
    results,        \* results of concurrent_llm_calls, NONE where unset
    leakage_df,     \* df of get_overcharge_and_undercharge_aggregations
    leakage_result, \* result of get_overcharge_and_undercharge_aggregations
    business_line,  \* per direction, what agent_business_line_summary returned
    recommendations, \* per direction, what generate_recommendations returned
    report          \* per direction, the zipped blocks of the report

vars == <<pc, rows, exclude_lines, currency_type, nested_json, formatted,
          shared_nodes,
          value, scale_info, fixed_info, fixed_text, scaled_text, reparsed,
          refixed_text,
          prompts, max_workers, futures, results,
          leakage_df, leakage_result, business_line, recommendations, report>>

bsVars == <<rows, exclude_lines, nested_json, formatted, shared_nodes>>
scaleVars == <<value, scale_info, fixed_info, fixed_text, scaled_text, reparsed,
               refixed_text>>
llmVars == <<prompts, max_workers, futures, results>>
raVars == <<leakage_df, leakage_result, business_line, recommendations,
           report>>

----------------------------------------------------------------------------
(* Bounds of the model. *)

\* rows drawn per input family
MaxRows == 3
\* largest decimal exponent of a value handed to the scale helpers
MaxExp == 7
\* sources per category in a tree handed directly to format_nested_amounts
MaxSources == 3

----------------------------------------------------------------------------
(* Python values. *)

NONE == [none |-> TRUE]
NA == [na |-> TRUE]

Abs(n) == IF n < 0 THEN -n ELSE n

Pow10Table == <<1, 10, 100, 1000, 10000, 100000, 1000000, 10000000,
                100000000, 1000000000>>

\* 10^k for 0 <= k <= 9
Pow10(k) == Pow10Table[k + 1]

\* the decimal m * 10^e
Dec(m, e) == [m |-> m, e |-> e]

\* abs(val) >= 10^k, for a decimal val
AbsGE(val, k) ==
    LET d == k - val.e IN
    IF d <= 0 THEN val.m # 0
    ELSE IF d >= 10 THEN FALSE
    ELSE Abs(val.m) >= Pow10(d)

\* val < 0, for a decimal val
IsNegative(val) == val.m < 0

\* n / 10^p rounded to the nearest integer, ties to even (n >= 0): the rounding
\* of the f-string format on the exact quotient.  A quotient that is a tie in
\* decimal but has no exact binary representation (1.005) falls in Python to
\* the side of its binary approximation.
RoundHalfEven(n, p) ==
    IF p >= 10 THEN 0
    ELSE LET D == Pow10(p)
             q == n \div D
             r == n % D
         IN IF 2 * r > D \/ (2 * r = D /\ q % 2 = 1) THEN q + 1 ELSE q

\* abs(val) / 10^divisor, in units of 10^-decimal_places, rounded
ScaledDigits(val, divisor, decimal_places) ==
    LET s == val.e + decimal_places - divisor IN
    IF val.m = 0 THEN 0
    ELSE IF s >= 0 THEN Abs(val.m) * Pow10(s)
    ELSE RoundHalfEven(Abs(val.m), -s)

----------------------------------------------------------------------------
(* Scale Formatter. *)

\* _CURRENCY_SYMBOLS.get(currency_type.upper(), f"{currency_type} ") if
\* currency_type else ""; a prefix is the tuple of its parts.
CurrencySymbol(cur) ==
    CASE cur = ""    -> <<>>
      [] cur = "USD" -> <<"$">>
      [] cur = "EUR" -> <<"EUR-sign">>
      [] cur = "GBP" -> <<"GBP-sign">>
      [] cur = "JPY" -> <<"YEN-sign">>
      [] cur = "INR" -> <<"INR-sign">>
      [] cur = "CNY" -> <<"YEN-sign">>
      [] cur = "AUD" -> <<"A$">>
      [] cur = "CAD" -> <<"C$">>
      [] OTHER       -> <<cur, " ">>

\* a rendered amount
Text(sym, sign, mag, dec, suf) ==
    [sym |-> sym, sign |-> sign, mag |-> mag, dec |-> dec, suf |-> suf]

\* a literal string such as "0" or "N/A"
Literal(s) == [literal |-> s]

ScaleInfo(divisor, suffix) == [divisor |-> divisor, suffix |-> suffix]

\* the (divisor, suffix) pairs tried by _get_scale_info, largest first
RelativeScales == <<ScaleInfo(12, "T"), ScaleInfo(9, "B"), ScaleInfo(6, "M"),
                    ScaleInfo(3, "K")>>

\* a relative-scale policy that takes a divisor as soon as the quotient
\* reaches 1
ScaleInfoFromOne(val) ==
    IF val = NONE THEN ScaleInfo(0, "")
    ELSE LET hits == {i \in DOMAIN RelativeScales :
                         AbsGE(val, RelativeScales[i].divisor)}
         IN IF hits = {} THEN ScaleInfo(0, "")
            ELSE RelativeScales[CHOOSE i \in hits : \A j \in hits : i <= j]

\* _get_scale_info: the relative-scale policy
get_scale_info(val) ==
    IF val = NONE THEN ScaleInfo(0, "")
    ELSE IF ~AbsGE(val, 3) THEN ScaleInfo(0, "")
    ELSE LET hits == {i \in DOMAIN RelativeScales :
                         AbsGE(val, RelativeScales[i].divisor + 1)}
         IN IF hits = {} THEN ScaleInfo(0, "")
            ELSE RelativeScales[CHOOSE i \in hits : \A j \in hits : i <= j]

\* _get_scale_info_fixed: the fixed-scale policy
get_scale_info_fixed(val) ==
    IF val = NONE THEN ScaleInfo(0, "")
    ELSE IF AbsGE(val, 12) THEN ScaleInfo(12, "T")
    ELSE IF AbsGE(val, 9) THEN ScaleInfo(9, "B")
    ELSE IF AbsGE(val, 6) THEN ScaleInfo(6, "M")
    ELSE IF AbsGE(val, 3) THEN ScaleInfo(3, "K")
    ELSE ScaleInfo(0, "")

\* _format_fixed_scale: f"{symbol}{val / divisor:,.{decimal_places}f}{suffix}";
\* the format prints one minus sign for every negative quotient, also one
\* that rounds to zero.
format_fixed_scale(cur, val, divisor, suffix, decimal_places) ==
    IF val = NONE THEN Literal("0")
    ELSE Text(CurrencySymbol(cur),
              IF IsNegative(val) THEN "-" ELSE "",
              ScaledDigits(val, divisor, decimal_places),
              decimal_places, suffix)

\* format_scaled_amount: the standalone fixed-scale call, 2 decimals.  The
\* quotient keeps the sign of value and `sign` is printed in front of it.
format_scaled_amount(val, cur) ==
    IF val = NONE THEN Literal("0")
    ELSE LET info == get_scale_info_fixed(val)
             formatted_sign == IF IsNegative(val) THEN "-" ELSE ""
             sign == IF IsNegative(val) THEN "-" ELSE ""
         IN Text(CurrencySymbol(cur),
                 IF sign = "-" /\ formatted_sign = "-" THEN "--"
                 ELSE IF sign = "-" \/ formatted_sign = "-" THEN "-" ELSE "",
                 ScaledDigits(val, info.divisor, 2), 2, info.suffix)

\* the divisor a suffix stands for
SuffixDivisor(suffix) ==
    CASE suffix = "T" -> 12
      [] suffix = "B" -> 9
      [] suffix = "M" -> 6
      [] suffix = "K" -> 3
      [] OTHER        -> 0

\* the number a rendered amount displays: digits and suffix read back
ParseText(t) ==
    Dec(IF t.sign = "" THEN t.mag ELSE -t.mag, SuffixDivisor(t.suf) - t.dec)

----------------------------------------------------------------------------
(* Labels: str values as tuples of characters. *)

\* the characters of the labels, in code-point order
Alphabet == <<" ", "&", "/", "A", "B", "C", "D", "E", "F", "G", "H", "I", "J",
              "K", "L", "M", "N", "O", "P", "Q", "R", "S", "T", "U", "V", "W",
              "X", "Y", "Z", "a", "b", "c", "d", "e", "f", "g", "h", "i", "j",
              "k", "l", "m", "n", "o", "p", "q", "r", "s", "t", "u", "v", "w",
              "x", "y", "z">>

CharCode == [c \in {Alphabet[i] : i \in DOMAIN Alphabet} |->
                CHOOSE i \in DOMAIN Alphabet : Alphabet[i] = c]

FirstUpper == CharCode["A"]
LastUpper == CharCode["Z"]
FirstLower == CharCode["a"]

SetMin(S) == CHOOSE x \in S : \A y \in S : x <= y
SetMax(S) == CHOOSE x \in S : \A y \in S : x >= y

\* a < b for str: the first differing character decides, a proper prefix is less
StrLess(a, b) ==
    LET n == IF Len(a) < Len(b) THEN Len(a) ELSE Len(b)
        diff == {i \in 1 .. n : a[i] # b[i]}
    IN IF diff = {} THEN Len(a) < Len(b)
       ELSE CharCode[a[SetMin(diff)]] < CharCode[b[SetMin(diff)]]

\* str.strip(): leading and trailing blanks removed
Strip(s) ==
    LET solid == {i \in DOMAIN s : s[i] # " "} IN
    IF solid = {} THEN <<>>
    ELSE SubSeq(s, SetMin(solid), SetMax(solid))

\* str.lower()
Lower(s) ==
    [i \in DOMAIN s |->
        IF CharCode[s[i]] >= FirstUpper /\ CharCode[s[i]] <= LastUpper
        THEN Alphabet[CharCode[s[i]] - FirstUpper + FirstLower]
        ELSE s[i]]

\* str.upper()
Upper(s) ==
    [i \in DOMAIN s |->
        IF CharCode[s[i]] >= FirstLower /\ CharCode[s[i]] <= CharCode["z"]
        THEN Alphabet[CharCode[s[i]] - FirstLower + FirstUpper]
        ELSE s[i]]

\* sub in s
Contains(sub, s) ==
    \E i \in 1 .. (Len(s) - Len(sub) + 1) : SubSeq(s, i, i + Len(sub) - 1) = sub

TotalAssets == <<"T","o","t","a","l"," ","A","s","s","e","t","s">>
TotalLiability == <<"T","o","t","a","l"," ","L","i","a","b","i","l","i","t","y">>
TotalIncome == <<"T","o","t","a","l"," ","I","n","c","o","m","e">>
TotalExpense == <<"T","o","t","a","l"," ","E","x","p","e","n","s","e">>
OtherX == <<"O","t","h","e","r","X">>
OtherY == <<"A","d","v","a","n","c","e","s">>

Loans == <<"L","o","a","n","s">>
Overdrafts == <<"O","v","e","r","d","r","a","f","t","s">>
\* as spelled in source_priority, with two blanks
PublicSecurities2 == <<"P","u","b","l","i","c"," "," ","S","e","c","u","r","i","t","i","e","s">>
\* as spelled in the docstring of format_nested_amounts
PublicSecurities == <<"P","u","b","l","i","c"," ","S","e","c","u","r","i","t","i","e","s">>
GovernmentSecurities == <<"G","o","v","e","r","n","m","e","n","t"," ","S","e","c","u","r","i","t","i","e","s">>
LowCostDeposits == <<"L","o","w"," ","C","o","s","t"," ","D","e","p","o","s","i","t","s">>
HighCostDeposits == <<"H","i","g","h"," ","C","o","s","t"," ","D","e","p","o","s","i","t","s">>
LongTermBorrowings == <<"L","o","n","g"," ","T","e","r","m"," ","B","o","r","r","o","w","i","n","g","s">>
InterbankBorrowings == <<"I","n","t","e","r","b","a","n","k"," ","B","o","r","r","o","w","i","n","g","s">>
OtherAssets == <<"O","t","h","e","r"," ","A","s","s","e","t","s">>
OtherLiabilities == <<"O","t","h","e","r"," ","L","i","a","b","i","l","i","t","i","e","s">>
OtherOperatingExpenses == <<"O","t","h","e","r"," ","O","p","e","r","a","t","i","n","g"," ","E","x","p","e","n","s","e","s">>
Cash == <<"C","a","s","h">>
Mortgages == <<"M","o","r","t","g","a","g","e","s">>
\* a label that matches "Loans" only after strip() and lower()
LoansPadded == <<" ","l","o","a","n","s"," ">>
\* a label that matches "Other Assets" only after lower()
OtherAssetsUpper == <<"O","T","H","E","R"," ","A","S","S","E","T","S">>

----------------------------------------------------------------------------
(* Data-frame helpers: pandas as build_bs_nested_hierarchy uses it. *)

\* one row of df; every column holds a value (no nulls)
Row(mgt, src, srcDesc, mrl, mrlDesc, cust, custName, ao, aoName, bd, pd, mtd) ==
    [MGT_LINE_DESCRIPTION |-> mgt, SOURCE_MGT_LINE |-> src,
     SOURCE_MGT_LINE_DESC |-> srcDesc, MRL_LINE |-> mrl,
     MRL_DESCRIPTION |-> mrlDesc, CUSTOMER_ID |-> cust,
     CUSTOMER_NAME |-> custName, ACCOUNT_OFFICER |-> ao, AO_NAME |-> aoName,
     BUSINESS_DAY |-> bd, PREVIOUS_DAY |-> pd, MTD |-> mtd]

\* the columns that hold labels; the others hold codes, modelled as integers
LabelColumns == {"MGT_LINE_DESCRIPTION", "SOURCE_MGT_LINE_DESC",
                 "MRL_DESCRIPTION", "CUSTOMER_NAME", "AO_NAME",
                 "BUSINESS_LINE_DESCRIPTION", "SBU_DESCRIPTION",
                 "VISION_OUC_DESCRIPTION", "CHANNEL_TYPE_DESCRIPTION"}

ColLess(col, a, b) == IF col \in LabelColumns THEN StrLess(a, b) ELSE a < b

\* the group key of row r
KeyOf(r, cols) == [i \in DOMAIN cols |-> r[cols[i]]]

\* the order of group keys: column by column
KeyLess(cols, k1, k2) ==
    LET diff == {i \in DOMAIN cols : k1[i] # k2[i]} IN
    /\ diff # {}
    /\ ColLess(cols[SetMin(diff)], k1[SetMin(diff)], k2[SetMin(diff)])

RECURSIVE SortKeys(_, _)
\* the keys of a groupby, in the sorted order groupby(sort=True) yields them
SortKeys(cols, S) ==
    IF S = {} THEN <<>>
    ELSE LET least == CHOOSE k \in S : \A o \in S \ {k} : KeyLess(cols, k, o)
         IN <<least>> \o SortKeys(cols, S \ {least})

RECURSIVE SumColumn(_, _)
\* Series.sum()
SumColumn(df, col) ==
    IF df = <<>> THEN 0 ELSE Head(df)[col] + SumColumn(Tail(df), col)

\* df.groupby(cols, as_index=False)[[BUSINESS_DAY, PREVIOUS_DAY, MTD]].sum():
\* one record per key, keys sorted
GroupSums(df, cols) ==
    LET keys == SortKeys(cols, {KeyOf(df[i], cols) : i \in DOMAIN df})
    IN [g \in DOMAIN keys |->
          LET members == SelectSeq(df, LAMBDA r : KeyOf(r, cols) = keys[g])
          IN [key |-> keys[g],
              BUSINESS_DAY |-> SumColumn(members, "BUSINESS_DAY"),
              PREVIOUS_DAY |-> SumColumn(members, "PREVIOUS_DAY"),
              MTD |-> SumColumn(members, "MTD")]]

\* a percentage change that was not divided by zero: change / prev * 100, kept
\* as the exact ratio
Pct(change, prev) == [change |-> change, prev |-> prev]

\* division by zero without the replace(): numpy's inf (nan for 0/0)
PctChangeNoReplace(business_day, previous_day) ==
    IF previous_day = 0 THEN [inf |-> TRUE]
    ELSE Pct(business_day - previous_day, previous_day)

\* (BUSINESS_DAY - PREVIOUS_DAY) / PREVIOUS_DAY.replace({0: pd.NA}) * 100
PctChange(business_day, previous_day) ==
    IF previous_day = 0 THEN NA
    ELSE Pct(business_day - previous_day, previous_day)

\* a percentage change below zero
PctNegative(p) ==
    \/ p.change < 0 /\ p.prev > 0
    \/ p.change > 0 /\ p.prev < 0

\* sorted(s, key=...) on integer keys; Python's sort is stable, also with
\* reverse=True.  The result lists the indices of s in sorted order.
StableOrder(keys, reverse) ==
    LET before(j, i) ==
            \/ (IF reverse THEN keys[j] > keys[i] ELSE keys[j] < keys[i])
            \/ keys[j] = keys[i] /\ j < i
        pos(i) == 1 + Cardinality({j \in DOMAIN keys : before(j, i)})
    IN [p \in DOMAIN keys |-> CHOOSE i \in DOMAIN keys : pos(i) = p]

\* s reordered by an order of its indices
Permute(s, order) == [p \in DOMAIN order |-> s[order[p]]]

\* s[:n]
Take(s, n) == SubSeq(s, 1, IF Len(s) < n THEN Len(s) ELSE n)

----------------------------------------------------------------------------
(* Hierarchy Builder: build_bs_nested_hierarchy. *)

AssetLiability == {TotalAssets, TotalLiability}
IncomeExpense == {TotalExpense, TotalIncome}

grp_cols_top == <<"MGT_LINE_DESCRIPTION">>
grp_cols_src == <<"MGT_LINE_DESCRIPTION", "SOURCE_MGT_LINE", "SOURCE_MGT_LINE_DESC">>
grp_cols_mrl == <<"MGT_LINE_DESCRIPTION", "SOURCE_MGT_LINE", "MRL_LINE">>
grp_cols_cust == <<"MGT_LINE_DESCRIPTION", "SOURCE_MGT_LINE", "MRL_LINE",
                   "MRL_DESCRIPTION", "CUSTOMER_ID", "CUSTOMER_NAME",
                   "ACCOUNT_OFFICER", "AO_NAME">>

\* top-level sums that yield a row of zero totals for a frame without rows
top_level_sums_with_total(df) ==
    LET g == IF df = <<>>
             THEN <<[key |-> <<TotalAssets>>, BUSINESS_DAY |-> 0,
                     PREVIOUS_DAY |-> 0, MTD |-> 0]>>
             ELSE GroupSums(df, grp_cols_top)
    IN [i \in DOMAIN g |->
          [MGT_LINE_DESCRIPTION |-> g[i].key[1],
           BUSINESS_DAY |-> g[i].BUSINESS_DAY,
           PREVIOUS_DAY |-> g[i].PREVIOUS_DAY,
           TL_MTD |-> g[i].MTD,
           TL_CHANGE |-> g[i].BUSINESS_DAY - g[i].PREVIOUS_DAY,
           TL_PCT_CHANGE |-> PctChange(g[i].BUSINESS_DAY, g[i].PREVIOUS_DAY)]]

\* top_level_sums, over all rows of df
top_level_sums(df) ==
    LET g == GroupSums(df, grp_cols_top)
    IN [i \in DOMAIN g |->
          [MGT_LINE_DESCRIPTION |-> g[i].key[1],
           BUSINESS_DAY |-> g[i].BUSINESS_DAY,
           PREVIOUS_DAY |-> g[i].PREVIOUS_DAY,
           TL_MTD |-> g[i].MTD,
           TL_CHANGE |-> g[i].BUSINESS_DAY - g[i].PREVIOUS_DAY,
           TL_PCT_CHANGE |-> PctChange(g[i].BUSINESS_DAY, g[i].PREVIOUS_DAY)]]

\* a frame left unfiltered
KeepAll(df, excluded) == df

\* df[~df['SOURCE_MGT_LINE_DESC'].isin(exclude_lines)]
FilterExcluded(df, excluded) ==
    SelectSeq(df, LAMBDA r : r.SOURCE_MGT_LINE_DESC \notin excluded)

\* source_sums, over the filtered rows
source_sums(df) ==
    LET g == GroupSums(df, grp_cols_src)
    IN [i \in DOMAIN g |->
          [MGT_LINE_DESCRIPTION |-> g[i].key[1],
           SOURCE_MGT_LINE |-> g[i].key[2],
           SOURCE_MGT_LINE_DESC |-> g[i].key[3],
           BUSINESS_DAY |-> g[i].BUSINESS_DAY,
           PREVIOUS_DAY |-> g[i].PREVIOUS_DAY,
           SRC_MTD |-> g[i].MTD,
           SRC_CHANGE |-> g[i].BUSINESS_DAY - g[i].PREVIOUS_DAY,
           SRC_PCT_CHANGE |-> PctChange(g[i].BUSINESS_DAY, g[i].PREVIOUS_DAY)]]

\* mrl_sums, over the filtered rows
mrl_sums(df) ==
    LET g == GroupSums(df, grp_cols_mrl)
    IN [i \in DOMAIN g |->
          [MGT_LINE_DESCRIPTION |-> g[i].key[1],
           SOURCE_MGT_LINE |-> g[i].key[2],
           MRL_LINE |-> g[i].key[3],
           BUSINESS_DAY |-> g[i].BUSINESS_DAY,
           PREVIOUS_DAY |-> g[i].PREVIOUS_DAY,
           MRL_MTD |-> g[i].MTD,
           MRL_CHANGE |-> g[i].BUSINESS_DAY - g[i].PREVIOUS_DAY,
           MRL_PCT_CHANGE |-> PctChange(g[i].BUSINESS_DAY, g[i].PREVIOUS_DAY)]]

\* customer records made row by row, the change derived before any summing
customer_sums_per_row(df) ==
    [i \in DOMAIN df |->
        [MGT_LINE_DESCRIPTION |-> df[i].MGT_LINE_DESCRIPTION,
         SOURCE_MGT_LINE |-> df[i].SOURCE_MGT_LINE,
         MRL_LINE |-> df[i].MRL_LINE,
         MRL_DESCRIPTION |-> df[i].MRL_DESCRIPTION,
         CUSTOMER_ID |-> df[i].CUSTOMER_ID,
         CUSTOMER_NAME |-> df[i].CUSTOMER_NAME,
         ACCOUNT_OFFICER |-> df[i].ACCOUNT_OFFICER,
         AO_NAME |-> df[i].AO_NAME,
         BUSINESS_DAY |-> df[i].BUSINESS_DAY,
         PREVIOUS_DAY |-> df[i].PREVIOUS_DAY,
         CUST_CHANGE |-> df[i].BUSINESS_DAY - df[i].PREVIOUS_DAY,
         CUST_PCT_CHANGE |-> PctChange(df[i].BUSINESS_DAY, df[i].PREVIOUS_DAY)]]

\* customer_sums, over the filtered rows: BUSINESS_DAY and PREVIOUS_DAY only
customer_sums(df) ==
    LET g == GroupSums(df, grp_cols_cust)
    IN [i \in DOMAIN g |->
          [MGT_LINE_DESCRIPTION |-> g[i].key[1],
           SOURCE_MGT_LINE |-> g[i].key[2],
           MRL_LINE |-> g[i].key[3],
           MRL_DESCRIPTION |-> g[i].key[4],
           CUSTOMER_ID |-> g[i].key[5],
           CUSTOMER_NAME |-> g[i].key[6],
           ACCOUNT_OFFICER |-> g[i].key[7],
           AO_NAME |-> g[i].key[8],
           BUSINESS_DAY |-> g[i].BUSINESS_DAY,
           PREVIOUS_DAY |-> g[i].PREVIOUS_DAY,
           CUST_CHANGE |-> g[i].BUSINESS_DAY - g[i].PREVIOUS_DAY,
           CUST_PCT_CHANGE |-> PctChange(g[i].BUSINESS_DAY, g[i].PREVIOUS_DAY)]]

\* cust_trimmed: the columns of a customer record kept in the tree
cust_trimmed(rec) ==
    [MRL_DESCRIPTION |-> rec.MRL_DESCRIPTION,
     ACCOUNT_OFFICER |-> rec.ACCOUNT_OFFICER,
     AO_NAME |-> rec.AO_NAME,
     BUSINESS_DAY |-> rec.BUSINESS_DAY,
     PREVIOUS_DAY |-> rec.PREVIOUS_DAY,
     CUST_PCT_CHANGE |-> rec.CUST_PCT_CHANGE,
     CUST_CHANGE |-> rec.CUST_CHANGE,
     CUSTOMER_ID |-> rec.CUSTOMER_ID,
     CUSTOMER_NAME |-> rec.CUSTOMER_NAME]

\* the customer records of key (mgt, src), in the order of customer_sums
CustomersOf(custs, mgt, src) ==
    LET mine == SelectSeq(custs, LAMBDA rec :
                    /\ rec.MGT_LINE_DESCRIPTION = mgt
                    /\ rec.SOURCE_MGT_LINE = src)
    IN [i \in DOMAIN mine |-> cust_trimmed(mine[i])]

\* the POS bucket with every entry kept
PosBucketAll(custs, mgt, src) ==
    SelectSeq(CustomersOf(custs, mgt, src), LAMBDA c : c.CUST_CHANGE >= 0)

\* pos_neg_src_lookup[key]["POS"]: change >= 0, the highest change first, top 1
PosBucket(custs, mgt, src) ==
    LET bucket == SelectSeq(CustomersOf(custs, mgt, src),
                            LAMBDA c : c.CUST_CHANGE >= 0)
        keys == [i \in DOMAIN bucket |-> bucket[i].CUST_CHANGE]
    IN Take(Permute(bucket, StableOrder(keys, TRUE)), 1)

\* pos_neg_src_lookup[key]["NEG"]: change < 0, the lowest change first, top 2
NegBucket(custs, mgt, src) ==
    LET bucket == SelectSeq(CustomersOf(custs, mgt, src),
                            LAMBDA c : c.CUST_CHANGE < 0)
        keys == [i \in DOMAIN bucket |-> bucket[i].CUST_CHANGE]
    IN Take(Permute(bucket, StableOrder(keys, FALSE)), 2)

\* mrl_description_lookup: drop_duplicates keeps the first row of each key
mrl_description_lookup(df, mgt, src, mrl) ==
    LET hits == {i \in DOMAIN df :
                    /\ df[i].MGT_LINE_DESCRIPTION = mgt
                    /\ df[i].SOURCE_MGT_LINE = src
                    /\ df[i].MRL_LINE = mrl}
    IN df[SetMin(hits)].MRL_DESCRIPTION

\* the sub-lines of a source with every month-to-date value admitted
SignificantMrlsUnfiltered(df, mrls, mgt, src) ==
    LET mine == SelectSeq(mrls, LAMBDA m :
                    /\ m.MGT_LINE_DESCRIPTION = mgt
                    /\ m.SOURCE_MGT_LINE = src)
        named == [i \in DOMAIN mine |->
                    mine[i] @@ ("MRL_DESCRIPTION" :>
                        mrl_description_lookup(df, mgt, src, mine[i].MRL_LINE))]
        keys == [i \in DOMAIN named |-> named[i].MRL_MTD]
    IN Take(Permute(named, StableOrder(keys, TRUE)), 2)

\* SIGNIFICANT_MRLS of a source as first assembled: the sub-lines with
\* MRL_MTD > 0, labelled, nlargest(2, "MRL_MTD")
SignificantMrls(df, mrls, mgt, src) ==
    LET mine == SelectSeq(mrls, LAMBDA m :
                    /\ m.MGT_LINE_DESCRIPTION = mgt
                    /\ m.SOURCE_MGT_LINE = src)
        positive_mrls == SelectSeq(mine, LAMBDA m : m.MRL_MTD > 0)
        named == [i \in DOMAIN positive_mrls |->
                    positive_mrls[i] @@ ("MRL_DESCRIPTION" :>
                        mrl_description_lookup(df, mgt, src,
                                               positive_mrls[i].MRL_LINE))]
        keys == [i \in DOMAIN named |-> named[i].MRL_MTD]
    IN Take(Permute(named, StableOrder(keys, TRUE)), 2)

\* sorted(SIGNIFICANT_MRLS, key=abs(MRL_MTD), reverse=True)
SortMrls(mrl_list) ==
    Permute(mrl_list,
            StableOrder([i \in DOMAIN mrl_list |-> Abs(mrl_list[i].MRL_MTD)], TRUE))

\* a source record that carries a list only when the list has an entry
SourceRecordSparse(df, custs, mrls, mgt, src) ==
    LET base == [k \in (DOMAIN src) \ {"MGT_LINE_DESCRIPTION"} |-> src[k]]
        pos == PosBucket(custs, mgt, src.SOURCE_MGT_LINE)
        neg == NegBucket(custs, mgt, src.SOURCE_MGT_LINE)
        sig == SignificantMrls(df, mrls, mgt, src.SOURCE_MGT_LINE)
        withPos == IF mgt \in AssetLiability /\ pos # <<>>
                   THEN base @@ ("POSITIVE_CUSTOMERS" :> pos) ELSE base
        withNeg == IF mgt \in AssetLiability /\ neg # <<>>
                   THEN withPos @@ ("NEGATIVE_CUSTOMERS" :> neg) ELSE withPos
    IN IF mgt \in IncomeExpense /\ sig # <<>>
       THEN withNeg @@ ("SIGNIFICANT_MRLS" :> sig)
       ELSE withNeg

\* src_dict: the source record without MGT_LINE_DESCRIPTION, with the lists of
\* its category
SourceRecord(df, custs, mrls, mgt, src) ==
    LET base == [k \in (DOMAIN src) \ {"MGT_LINE_DESCRIPTION"} |-> src[k]]
        withCustomers ==
            IF mgt \in AssetLiability
            THEN base @@ ("POSITIVE_CUSTOMERS" :>
                              PosBucket(custs, mgt, src.SOURCE_MGT_LINE))
                      @@ ("NEGATIVE_CUSTOMERS" :>
                              NegBucket(custs, mgt, src.SOURCE_MGT_LINE))
            ELSE base
    IN IF mgt \in IncomeExpense
       THEN withCustomers @@ ("SIGNIFICANT_MRLS" :>
                SignificantMrls(df, mrls, mgt, src.SOURCE_MGT_LINE))
       ELSE withCustomers

\* the source records left in the order of source_sums
SourcesAsGrouped(source_records, mgt) == source_records

\* source_records_sorted of one top-level category
SortedSources(source_records, mgt) ==
    IF mgt \in AssetLiability
    THEN Permute(source_records,
                 StableOrder([i \in DOMAIN source_records |->
                                 Abs(source_records[i].SRC_CHANGE)], TRUE))
    ELSE LET sorted == Permute(source_records,
                 StableOrder([i \in DOMAIN source_records |->
                                 Abs(source_records[i].SRC_MTD)], TRUE))
         IN [i \in DOMAIN sorted |->
               IF "SIGNIFICANT_MRLS" \in DOMAIN sorted[i]
               THEN [sorted[i] EXCEPT !.SIGNIFICANT_MRLS = SortMrls(@)]
               ELSE sorted[i]]

\* source_sums.groupby("MGT_LINE_DESCRIPTION").size(), read with .get(mgt, 0)
all_sources(srcs, mgt) ==
    Cardinality({i \in DOMAIN srcs : srcs[i].MGT_LINE_DESCRIPTION = mgt})

\* a count of the sources whose change is not zero only
SourcesWithChange(srcs, mgt) ==
    Cardinality({i \in DOMAIN srcs : /\ srcs[i].MGT_LINE_DESCRIPTION = mgt
                                     /\ srcs[i].SRC_CHANGE # 0})

\* the same size() of the same frame: no threshold is applied
sig_sources(srcs, mgt) ==
    Cardinality({i \in DOMAIN srcs : srcs[i].MGT_LINE_DESCRIPTION = mgt})

\* build_bs_nested_hierarchy(df, exclude_lines)
build_bs_nested_hierarchy(df_all, excluded) ==
    LET tops == top_level_sums(df_all)
        df == FilterExcluded(df_all, excluded)
        srcs == source_sums(df)
        mrls == mrl_sums(df)
        custs == customer_sums(df)
    IN [t \in DOMAIN tops |->
          LET mgt_desc == tops[t].MGT_LINE_DESCRIPTION
              sources_for_mgt ==
                  SelectSeq(srcs, LAMBDA x : x.MGT_LINE_DESCRIPTION = mgt_desc)
              source_records ==
                  [i \in DOMAIN sources_for_mgt |->
                      SourceRecord(df, custs, mrls, mgt_desc, sources_for_mgt[i])]
          IN tops[t]
             @@ ("SIGNIFICANT_SOURCES_COUNT" :> sig_sources(srcs, mgt_desc))
             @@ ("SOURCES_COUNT" :> all_sources(srcs, mgt_desc))
             @@ ("SIGNIFICANT_SOURCES" :> SortedSources(source_records, mgt_desc))]

----------------------------------------------------------------------------
(* Tree Formatter/Orderer: _format_dict and format_nested_amounts. *)

\* float('inf') as a sort key: above every index of a priority list
Infinity == 1000000

\* the keys ending in _CHANGE but not in _PCT_CHANGE, and those ending in
\* _PCT_CHANGE, among the keys of the tree
ChangeKeys == {"TL_CHANGE", "SRC_CHANGE", "MRL_CHANGE", "CUST_CHANGE"}
PctChangeKeys == {"TL_PCT_CHANGE", "SRC_PCT_CHANGE", "MRL_PCT_CHANGE",
                  "CUST_PCT_CHANGE"}

\* the amount keys as declared by format_nested_amounts (amount_keys)
amount_keys == {"BUSINESS_DAY", "PREVIOUS_DAY", "SRC_MTD", "TL_MTD", "MRL_MTD"}

\* the amount keys _format_dict goes through
FormatDictAmountKeys == {"BUSINESS_DAY", "PREVIOUS_DAY", "SRC_MTD", "TL_MTD"}

FixKey(k) ==
    CASE k = "BUSINESS_DAY" -> "BUSINESS_DAY_FIX"
      [] k = "PREVIOUS_DAY" -> "PREVIOUS_DAY_FIX"
      [] k = "SRC_MTD"      -> "SRC_MTD_FIX"
      [] k = "TL_MTD"       -> "TL_MTD_FIX"
      [] k = "MRL_MTD"      -> "MRL_MTD_FIX"

\* a direction that never says 'Decrease'
AlwaysIncrease(change_value) == "Increase"
\* 'Decrease' if change_value < 0 else 'Increase'
Direction(change_value) == IF change_value < 0 THEN "Decrease" ELSE "Increase"

\* the empty dict
EmptyDict == [k \in {} |-> NONE]

\* new_dict[f"{direction}_Amount"]: the change with its sign stripped, at the
\* relative scale of the change, 0 decimals
ChangeEntry(d, cur) ==
    LET present == {k \in ChangeKeys : k \in DOMAIN d} IN
    IF present = {} THEN EmptyDict
    ELSE LET change_value == d[CHOOSE k \in present : TRUE]
             rel == get_scale_info(Dec(change_value, 0))
         IN (IF Direction(change_value) = "Decrease" THEN "Decrease_Amount"
             ELSE "Increase_Amount")
            :> format_fixed_scale(cur,
                   Dec(IF Direction(change_value) = "Decrease"
                       THEN Abs(change_value) ELSE change_value, 0),
                   rel.divisor, rel.suffix, 0)

\* (rel_divisor, rel_suffix) after the first loop of _format_dict: None when
\* the node has no change
RelScale(d) ==
    LET present == {k \in ChangeKeys : k \in DOMAIN d} IN
    IF present = {} THEN NONE
    ELSE get_scale_info(Dec(d[CHOOSE k \in present : TRUE], 0))

\* f"{abs(val):.2f}%": the magnitude of the exact ratio, 2 decimals
PctText(val) ==
    IF val = NA THEN Literal("<NA>%")
    ELSE [pct_of |-> Abs(val.change), pct_per |-> Abs(val.prev), dec |-> 2]

\* new_dict[f"{direction}_Percentage"]; pd.NA is not None and is no int or
\* float, so it is rendered, as an increase
PctEntry(d) ==
    LET present == {k \in PctChangeKeys : k \in DOMAIN d} IN
    IF present = {} THEN EmptyDict
    ELSE LET val == d[CHOOSE k \in present : TRUE]
         IN IF val = NONE THEN EmptyDict
            ELSE (IF val # NA /\ PctNegative(val) THEN "Decrease_Percentage"
                  ELSE "Increase_Percentage") :> PctText(val)

\* the presentation copies of the amount keys: the relative-scale copy under
\* the original key, the fixed-scale copy under <key>_FIX
AmountEntries(d, cur) ==
    LET ks == {k \in FormatDictAmountKeys : k \in DOMAIN d}
        rel == RelScale(d)
    IN [k \in ks \cup {FixKey(k) : k \in ks} |->
          IF k \in ks
          THEN IF rel # NONE
               THEN format_fixed_scale(cur, Dec(d[k], 0), rel.divisor,
                                       rel.suffix, 0)
               ELSE Literal("N/A")
          ELSE LET orig == CHOOSE o \in ks : FixKey(o) = k
                   fix == get_scale_info_fixed(Dec(d[orig], 0))
               IN format_fixed_scale(cur, Dec(d[orig], 0), fix.divisor,
                                     fix.suffix, 2)]

\* _format_dict on one dict, before it goes into the child lists
FormatFlat(d, cur) ==
    LET new_dict == ChangeEntry(d, cur) @@ PctEntry(d) @@ AmountEntries(d, cur)
        copied == {k \in DOMAIN d : /\ k \notin DOMAIN new_dict
                                    /\ k \notin ChangeKeys
                                    /\ k \notin PctChangeKeys}
    IN new_dict @@ [k \in copied |-> d[k]]

FormatList(list, cur) == [i \in DOMAIN list |-> FormatFlat(list[i], cur)]

\* a source dict and its SIGNIFICANT_MRLS / POSITIVE_CUSTOMERS /
\* NEGATIVE_CUSTOMERS
FormatSource(src, cur) ==
    LET flat == FormatFlat(src, cur)
        childKeys == {"SIGNIFICANT_MRLS", "POSITIVE_CUSTOMERS",
                      "NEGATIVE_CUSTOMERS"} \cap DOMAIN flat
    IN [k \in DOMAIN flat |->
          IF k \in childKeys THEN FormatList(flat[k], cur) ELSE flat[k]]

\* _format_dict(tl, currency_type, amount_keys)
format_dict(d, cur) ==
    LET flat == FormatFlat(d, cur)
    IN IF "SIGNIFICANT_SOURCES" \in DOMAIN flat
       THEN [flat EXCEPT !.SIGNIFICANT_SOURCES =
                [i \in DOMAIN @ |-> FormatSource(@[i], cur)]]
       ELSE flat

\* top_level_order.get(item.get("MGT_LINE_DESCRIPTION"), float('inf'))
get_top_level_priority(item) ==
    CASE item.MGT_LINE_DESCRIPTION = TotalAssets    -> 0
      [] item.MGT_LINE_DESCRIPTION = TotalLiability -> 1
      [] item.MGT_LINE_DESCRIPTION = TotalIncome    -> 2
      [] item.MGT_LINE_DESCRIPTION = TotalExpense   -> 3
      [] OTHER                                      -> Infinity

\* source_priority[mgt_desc]
source_priority(mgt_desc) ==
    IF mgt_desc \in {TotalAssets, TotalIncome}
    THEN <<Loans, Overdrafts, PublicSecurities2, GovernmentSecurities>>
    ELSE <<LowCostDeposits, HighCostDeposits, LongTermBorrowings,
           InterbankBorrowings>>

\* other_src of sort_significant_sources
other_src(mgt_desc) ==
    IF Contains(<<"E","x","p","e","n","s","e">>, mgt_desc)
    THEN OtherOperatingExpenses
    ELSE IF \/ Contains(<<"A","s","s","e","t">>, mgt_desc)
            \/ Contains(<<"I","n","c","o","m","e">>, mgt_desc)
         THEN OtherAssets
         ELSE OtherLiabilities

\* a source priority that matches labels exactly as written
SourcePriorityExact(source, mgt_desc) ==
    LET priority_list == source_priority(mgt_desc)
        exact == {i \in DOMAIN priority_list :
                     priority_list[i] = source.SOURCE_MGT_LINE_DESC}
    IN IF exact # {} THEN SetMax(exact) - 1
       ELSE IF source.SOURCE_MGT_LINE_DESC = other_src(mgt_desc) THEN Infinity
       ELSE Len(priority_list)

\* get_source_priority(source) within sort_significant_sources(item)
get_source_priority(source, mgt_desc) ==
    LET priority_list == source_priority(mgt_desc)
        src_desc == Strip(source.SOURCE_MGT_LINE_DESC)
        exact == {i \in DOMAIN priority_list : Strip(priority_list[i]) = src_desc}
        folded == {i \in DOMAIN priority_list :
                      Lower(Strip(priority_list[i])) = Lower(src_desc)}
    IN IF exact # {} THEN SetMax(exact) - 1
       ELSE IF folded # {} THEN SetMin(folded) - 1
       ELSE IF \/ src_desc = Strip(other_src(mgt_desc))
               \/ Lower(src_desc) = Strip(Lower(other_src(mgt_desc)))
            THEN Infinity
       ELSE Len(priority_list)

\* a sort by key that turns round the sources of equal key
SortTiesReversed(sources, keys) ==
    LET before(j, i) == keys[j] < keys[i] \/ (keys[j] = keys[i] /\ j > i)
        pos(i) == 1 + Cardinality({j \in DOMAIN keys : before(j, i)})
    IN [p \in DOMAIN keys |-> sources[CHOOSE i \in DOMAIN keys : pos(i) = p]]

\* sources.sort(key=get_source_priority): list.sort is stable
SortSources(sources, keys) == Permute(sources, StableOrder(keys, FALSE))

\* sort_significant_sources(item)
sort_significant_sources(item) ==
    IF /\ item.MGT_LINE_DESCRIPTION \in
              {TotalAssets, TotalIncome, TotalLiability, TotalExpense}
       /\ "SIGNIFICANT_SOURCES" \in DOMAIN item
       /\ item.SIGNIFICANT_SOURCES # <<>>
    THEN [item EXCEPT !.SIGNIFICANT_SOURCES =
            SortSources(@,
                [i \in DOMAIN @ |->
                    get_source_priority(@[i], item.MGT_LINE_DESCRIPTION)])]
    ELSE item

\* the top-level items left in the order they came in
TopLevelUnsorted(processed_json) == processed_json

\* sorted(processed_json, key=get_top_level_priority)
SortTopLevel(processed_json) ==
    Permute(processed_json,
            StableOrder([i \in DOMAIN processed_json |->
                            get_top_level_priority(processed_json[i])], FALSE))

\* the dict at place i of the list handed in, as an object: its identity and
\* its content
InputObject(nested, i) == [ref |-> <<"nested_json", i>>, val |-> nested[i]]

\* the object itself in place of a copy of it
SameObject(obj) == obj

\* copy.deepcopy(item): the same content in a new object, children included
deepcopy(obj) == [ref |-> <<"copy", obj.ref[2]>>, val |-> obj.val]

\* the objects format_nested_amounts has written to when it returns:
\* sort_significant_sources sorts the list of the object in place and
\* _format_dict clears and refills the object and its children
ProcessedObjects(nested, cur) ==
    [i \in DOMAIN nested |->
        LET item == deepcopy(InputObject(nested, i))
        IN [ref |-> item.ref,
            val |-> format_dict(sort_significant_sources(item.val), cur)]]

\* the list handed in, after the call: sorted() builds a new list, so the
\* order of the list stays; a dict of it that was written to holds what was
\* written
CallerTreeAfter(nested, cur) ==
    LET processed == ProcessedObjects(nested, cur) IN
    [i \in DOMAIN nested |->
        IF processed[i].ref = InputObject(nested, i).ref
        THEN processed[i].val ELSE nested[i]]

\* the places of the list handed in whose dict is a dict of the result
SharedItems(nested, cur) ==
    LET processed == ProcessedObjects(nested, cur) IN
    {i \in DOMAIN nested : processed[i].ref = InputObject(nested, i).ref}

\* format_nested_amounts(nested_json, currency_type): works on a deep copy
format_nested_amounts(nested, cur) ==
    LET processed_json == [i \in DOMAIN nested |->
                              sort_significant_sources(nested[i])]
        sorted_json == SortTopLevel(processed_json)
    IN [i \in DOMAIN sorted_json |-> format_dict(sorted_json[i], cur)]

----------------------------------------------------------------------------
(* The scale helpers applied to one value. *)

\* no leakage data in the run
RaIdle ==
    /\ leakage_df = <<>> /\ leakage_result = NONE
    /\ business_line = NONE /\ recommendations = NONE /\ report = NONE

\* no batch of narration calls in the run
LlmIdle ==
    /\ prompts = <<>> /\ max_workers = 0 /\ futures = <<>> /\ results = <<>>

Mantissas == {0, 1, 5, 8, 15, 999, 1000, 1005, 1234, -1234, 9999, 10000,
              12345, -12345, 999994, 999995, 999999, -999999}

ScaleValues == {Dec(m, e) : m \in Mantissas, e \in -2 .. MaxExp}

InitScale ==
    /\ pc = "value"
    /\ value \in ScaleValues
    /\ currency_type \in {"INR", "KES"}
    /\ scale_info = NONE /\ fixed_info = NONE /\ fixed_text = NONE
    /\ scaled_text = NONE /\ reparsed = NONE /\ refixed_text = NONE
    /\ rows = <<>> /\ exclude_lines = {} /\ nested_json = <<>> /\ formatted = <<>>
    /\ shared_nodes = {}
    /\ LlmIdle
    /\ RaIdle

\* the helpers on value
ScaleValue ==
    /\ pc = "value"
    /\ scale_info' = get_scale_info(value)
    /\ fixed_info' = get_scale_info_fixed(value)
    /\ fixed_text' = format_fixed_scale(currency_type, value,
                        get_scale_info_fixed(value).divisor,
                        get_scale_info_fixed(value).suffix, 2)
    /\ scaled_text' = format_scaled_amount(value, currency_type)
    /\ pc' = "scaled"
    /\ UNCHANGED <<bsVars, currency_type, value, reparsed, refixed_text, llmVars,
                   raVars>>

\* the displayed number read back and rendered again by the same policy
Reformat ==
    /\ pc = "scaled"
    /\ reparsed' = ParseText(fixed_text)
    /\ refixed_text' = format_fixed_scale(currency_type, ParseText(fixed_text),
                          get_scale_info_fixed(ParseText(fixed_text)).divisor,
                          get_scale_info_fixed(ParseText(fixed_text)).suffix, 2)
    /\ pc' = "reformatted"
    /\ UNCHANGED <<bsVars, currency_type, value, scale_info, fixed_info,
                   fixed_text, scaled_text, llmVars,
                   raVars>>

----------------------------------------------------------------------------
(* The balance-sheet run: rows -> build_bs_nested_hierarchy ->             *)
(* format_nested_amounts.                                                  *)

RECURSIVE SeqsUpTo(_, _)
\* the sequences over S of length at most n
SeqsUpTo(S, n) ==
    IF n = 0 THEN {<<>>}
    ELSE LET shorter == SeqsUpTo(S, n - 1)
         IN shorter \cup {Append(q, x) : q \in shorter, x \in S}

MrlLabel(mrl) == <<"M", Alphabet[CharCode["a"] + mrl - 1]>>
CustomerName(cust) == <<Alphabet[CharCode["A"] + cust - 1]>>

\* a row of a counterparty; one officer throughout
CustRow(mgt, src, srcDesc, mrl, cust, bd, pd) ==
    Row(mgt, src, srcDesc, mrl, MrlLabel(mrl), cust, CustomerName(cust),
        7, <<"J">>, bd, pd, 0)

\* a row of a sub-line; one counterparty throughout
MrlRow(mgt, src, srcDesc, mrl, bd, pd, mtd) ==
    Row(mgt, src, srcDesc, mrl, MrlLabel(mrl), 1, CustomerName(1),
        7, <<"J">>, bd, pd, mtd)

\* counterparties of one asset source: A in sub-line a, B in sub-lines a and b
CustomerRows ==
    {CustRow(TotalAssets, 1, Loans, mc[1], mc[2], a[1], a[2]) :
        mc \in {<<1, 1>>, <<1, 2>>, <<2, 2>>},
        a \in {<<1000, 0>>, <<0, 500>>, <<0, 4000>>}}

\* sub-lines of one income source
SublineRows ==
    {MrlRow(TotalIncome, 1, Loans, mrl, a[1], a[2], a[3]) :
        mrl \in {1, 2, 3},
        a \in {<<50000, 0, 300>>, <<10, 10, -50>>, <<0, 20, 120>>}}

\* categories and sources, one of the sources on the exclusion list
CategoryRows ==
    {MrlRow(x[1], x[2], x[3], 1, x[4], x[5], x[6]) :
        x \in {<<TotalAssets, 1, Loans, 500, 0, 10>>,
               <<TotalAssets, 1, Loans, 0, 500, 0>>,
               <<TotalAssets, 2, Cash, 500, 0, 10>>,
               <<TotalExpense, 1, HighCostDeposits, 500, 0, 10>>,
               <<TotalExpense, 2, Cash, 0, 500, 0>>,
               <<OtherX, 1, Loans, 500, 0, 10>>}}

\* the counterparty changes {+500, +300, -200, -900, -50} of one source
ExampleCustomers ==
    <<CustRow(TotalAssets, 1, Loans, 1, 1, 500, 0),
      CustRow(TotalAssets, 1, Loans, 1, 2, 300, 0),
      CustRow(TotalAssets, 1, Loans, 1, 3, 0, 200),
      CustRow(TotalAssets, 1, Loans, 1, 4, 0, 900),
      CustRow(TotalAssets, 1, Loans, 1, 5, 0, 50)>>

\* the sub-line month-to-date values {120, -50, 300, 0, 80} of one source
ExampleSublines ==
    <<MrlRow(TotalIncome, 1, Loans, 1, 10, 0, 120),
      MrlRow(TotalIncome, 1, Loans, 2, 10, 0, -50),
      MrlRow(TotalIncome, 1, Loans, 3, 10, 0, 300),
      MrlRow(TotalIncome, 1, Loans, 4, 10, 0, 0),
      MrlRow(TotalIncome, 1, Loans, 5, 10, 0, 80)>>

\* a source whose sub-lines all have a month-to-date value of zero or less
ExampleNoPositive ==
    <<MrlRow(TotalIncome, 1, Loans, 1, 10, 0, -50),
      MrlRow(TotalIncome, 1, Loans, 2, 10, 0, 0)>>

\* a sub-line whose change is at the scale of millions
ExampleLargeChange ==
    <<MrlRow(TotalIncome, 1, Loans, 1, 12345000, 0, 300)>>

\* two sources per category, the second of each the larger in absolute value
ExampleSourceOrder ==
    <<MrlRow(TotalAssets, 1, Loans, 1, 100, 0, 0),
      MrlRow(TotalAssets, 2, Overdrafts, 1, 0, 900, 0),
      MrlRow(TotalExpense, 1, HighCostDeposits, 1, 10, 0, 10),
      MrlRow(TotalExpense, 2, LowCostDeposits, 1, 10, 0, 40),
      MrlRow(TotalExpense, 2, LowCostDeposits, 2, 10, 0, 60),
      MrlRow(TotalExpense, 2, LowCostDeposits, 3, 10, 0, -400)>>

\* counterparties whose sums are below zero: a rise from -500 to -200, a fall
\* from -500 to -900 and a fall from 0 to -300
ExampleNegativePrior ==
    <<CustRow(TotalAssets, 1, Loans, 1, 1, -200, -500),
      CustRow(TotalAssets, 1, Loans, 1, 2, -900, -500),
      CustRow(TotalAssets, 2, Overdrafts, 1, 3, -300, 0)>>

\* asset sources of priority rank 0 (" loans ", Loans) and of the rank of the
\* unmatched (Advances, Mortgages), in the ascending order of their changes,
\* and two sources of a category without priority list
ExampleEqualRank ==
    <<MrlRow(TotalAssets, 1, Loans, 1, 10, 0, 0),
      MrlRow(TotalAssets, 2, Mortgages, 1, 100, 0, 0),
      MrlRow(TotalAssets, 3, LoansPadded, 1, 500, 0, 0),
      MrlRow(TotalAssets, 4, OtherY, 1, 0, 900, 0),
      MrlRow(OtherX, 1, Overdrafts, 1, 10, 0, 0),
      MrlRow(OtherX, 2, Loans, 1, 700, 0, 0)>>

ExampleInputs == {ExampleCustomers, ExampleSublines, ExampleNoPositive,
                  ExampleLargeChange, ExampleSourceOrder,
                  ExampleNegativePrior, ExampleEqualRank}

\* the inputs whose sources are all kept
KeptInputs ==
    SeqsUpTo(CustomerRows, MaxRows) \cup SeqsUpTo(SublineRows, MaxRows)
    \cup ExampleInputs

\* the inputs with a source on the exclusion list
CategoryInputs == SeqsUpTo(CategoryRows, MaxRows)

ScaleIdle ==
    /\ value = NONE /\ scale_info = NONE /\ fixed_info = NONE
    /\ fixed_text = NONE /\ scaled_text = NONE /\ reparsed = NONE
    /\ refixed_text = NONE

InitBS ==
    /\ pc = "rows"
    /\ \/ rows \in KeptInputs /\ exclude_lines = {Cash}
       \/ rows \in CategoryInputs /\ exclude_lines \in {{}, {Cash}}
    /\ currency_type = "KES"
    /\ nested_json = <<>>
    /\ formatted = <<>>
    /\ shared_nodes = {}
    /\ ScaleIdle
    /\ LlmIdle
    /\ RaIdle

\* agg_json = build_bs_nested_hierarchy(df, exclude_lines)
Build ==
    /\ pc = "rows"
    /\ nested_json' = build_bs_nested_hierarchy(rows, exclude_lines)
    /\ pc' = "built"
    /\ UNCHANGED <<rows, exclude_lines, currency_type, formatted, shared_nodes,
                   scaleVars, llmVars,
                   raVars>>

\* agg_json_formatted = format_nested_amounts(agg_json, currency_type); the
\* call works in place on the dicts it processes, so agg_json is afterwards
\* what these writes left of it
Format ==
    /\ pc = "built"
    /\ formatted' = format_nested_amounts(nested_json, currency_type)
    /\ nested_json' = CallerTreeAfter(nested_json, currency_type)
    /\ shared_nodes' = SharedItems(nested_json, currency_type)
    /\ pc' = "formatted"
    /\ UNCHANGED <<rows, exclude_lines, currency_type, scaleVars, llmVars, raVars>>

----------------------------------------------------------------------------
(* format_nested_amounts on trees handed to it directly. *)

\* a source node as the builder shapes it for the category mgt
SourceNode(mgt, code, desc) ==
    LET base == [SOURCE_MGT_LINE |-> code, SOURCE_MGT_LINE_DESC |-> desc,
                 BUSINESS_DAY |-> 700, PREVIOUS_DAY |-> 200, SRC_MTD |-> 40,
                 SRC_CHANGE |-> 500, SRC_PCT_CHANGE |-> Pct(500, 200)]
    IN IF mgt \in AssetLiability
       THEN base @@ ("POSITIVE_CUSTOMERS" :> <<>>) @@ ("NEGATIVE_CUSTOMERS" :> <<>>)
       ELSE IF mgt \in IncomeExpense
            THEN base @@ ("SIGNIFICANT_MRLS" :> <<>>)
            ELSE base

\* a top-level node with the sources descs, in that order
TopNode(mgt, descs) ==
    [MGT_LINE_DESCRIPTION |-> mgt, BUSINESS_DAY |-> 12000,
     PREVIOUS_DAY |-> 2000, TL_MTD |-> 0, TL_CHANGE |-> 10000,
     TL_PCT_CHANGE |-> Pct(10000, 2000),
     SIGNIFICANT_SOURCES_COUNT |-> Len(descs), SOURCES_COUNT |-> Len(descs),
     SIGNIFICANT_SOURCES |-> [i \in DOMAIN descs |-> SourceNode(mgt, i, descs[i])]]

TopCategories == {TotalAssets, TotalLiability, TotalIncome, TotalExpense,
                  OtherX, OtherY}

\* the source labels tried under a category: those of its priority list as
\* written and padded, one outside the list, and its residual labels
SourceLabels(mgt) ==
    IF mgt \in {TotalLiability, TotalExpense}
    THEN {HighCostDeposits, LowCostDeposits, Mortgages, OtherLiabilities,
          OtherOperatingExpenses}
    ELSE {Loans, LoansPadded, Overdrafts, Mortgages, OtherAssetsUpper}

\* the lists of top-level categories without repetition, in every order
CategoryLists ==
    {q \in SeqsUpTo(TopCategories, Cardinality(TopCategories)) :
        \A i, j \in DOMAIN q : i # j => q[i] # q[j]}

OrderInputs ==
    {[i \in DOMAIN q |-> TopNode(q[i], <<>>)] : q \in CategoryLists}
    \cup UNION {{<<TopNode(mgt, descs)>> :
                    descs \in SeqsUpTo(SourceLabels(mgt), MaxSources)} :
                mgt \in TopCategories \ {OtherY}}

InitOrder ==
    /\ pc = "built"
    /\ rows = <<>>
    /\ exclude_lines = {}
    /\ currency_type = "KES"
    /\ nested_json \in OrderInputs
    /\ formatted = <<>>
    /\ shared_nodes = {}
    /\ ScaleIdle
    /\ LlmIdle
    /\ RaIdle

NextOrder == Format

SpecOrder == InitOrder /\ [][NextOrder]_vars

----------------------------------------------------------------------------
NextScale == ScaleValue \/ Reformat

SpecScale == InitScale /\ [][NextScale]_vars

----------------------------------------------------------------------------
(* The narration client.  A text is a tuple of tokens; " " is whitespace.   *)
(* The result of a call is a record [raised, none, text]: the exception     *)
(* that left it ("" when it returned), whether it returned None, and the    *)
(* text it returned.                                                        *)

\* prompts per batch
MaxPrompts == 3

\* max_workers: int = 4
DefaultMaxWorkers == 4

ErrorText == <<"[Error generating response]">>

Returns(text) == [raised |-> "", none |-> FALSE, text |-> text]
ReturnsNone == [raised |-> "", none |-> TRUE, text |-> <<>>]
Raises(exc) == [raised |-> exc, none |-> FALSE, text |-> <<>>]
\* a block left at its end, neither by return nor by an exception
Passes == Raises("pass")

PromptTexts == {"p", "q"}

\* the texts the model may send back for a prompt: the answer alone, and the
\* answer after a block of reasoning
Contents(prompt) ==
    {<<"answer to " \o prompt>>,
     <<" ", "<THINK>", "notes", " ", "</think>", " ", "answer to " \o prompt, " ">>}

\* what the HTTP exchange of one call may do: a 200 with a content, a 200
\* whose content is null, a 200 whose body lacks the content, a 404, a 500,
\* a status that is neither 200 nor an error, and no response in 60 s
Exchanges(prompt) ==
    {[raised |-> "", status |-> 200, json |-> "content", content |-> c] :
        c \in Contents(prompt)}
    \cup {[raised |-> "", status |-> 200, json |-> j, content |-> <<>>] :
            j \in {"null", "malformed"}}
    \cup {[raised |-> "", status |-> st, json |-> "", content |-> <<>>] :
            st \in {404, 500, 204}}
    \cup {[raised |-> "Timeout", status |-> 0, json |-> "", content |-> <<>>]}

\* the try block of call_vllm_completion_or_chat: raise_for_status raises
\* for the statuses from 400 on
TryPost(http) ==
    IF http.raised # "" THEN Raises(http.raised)
    ELSE IF http.status = 200
         THEN CASE http.json = "content" -> Returns(http.content)
                [] http.json = "null" -> ReturnsNone
                [] OTHER -> Raises("KeyError")
         ELSE IF http.status # 404 /\ http.status >= 400
              THEN Raises("HTTPError")
              ELSE Passes

\* the body is left by a return, by an exception the handler logs, or at its
\* end; the last two reach the final return
call_vllm_completion_or_chat(http) ==
    LET body == TryPost(http) IN
    IF body.raised = "" THEN body ELSE Returns(ErrorText)

\* a token that opens, closes a reasoning block, whatever its case
IsOpen(tok) == tok \in {"<think>", "<THINK>", "<Think>"}
IsClose(tok) == tok \in {"</think>", "</THINK>", "</Think>"}

\* re.sub(r"(?is)<think>.*?</think>", "", response)
RECURSIVE StripThink(_)
StripThink(s) ==
    LET opens == {i \in DOMAIN s : IsOpen(s[i]) /\
                     \E j \in DOMAIN s : j > i /\ IsClose(s[j])}
    IN IF opens = {} THEN s
       ELSE LET i == SetMin(opens)
                j == SetMin({k \in DOMAIN s : k > i /\ IsClose(s[k])})
            IN SubSeq(s, 1, i - 1) \o StripThink(SubSeq(s, j + 1, Len(s)))

\* the body of worker's try block up to the value it stores
WorkerBody(http) ==
    LET response == call_vllm_completion_or_chat(http) IN
    IF response.raised # "" THEN response
    ELSE IF response.none THEN Raises("TypeError")
    ELSE Returns(Strip(StripThink(response.text)))

\* a worker without the except clause
NoHandler(outcome) == outcome

\* except Exception in worker: the placeholder is stored instead
WorkerHandler(outcome) ==
    IF outcome.raised # "" THEN Returns(ErrorText) ELSE outcome

\* the first slot still unset
FirstFreeSlot(future, res) ==
    SetMin({i \in DOMAIN res : ToString(res[i]) = ToString(NONE)})

\* the slot a worker writes: results[idx]
WriteSlot(future, res) == future.idx

\* the prompt lists tried: up to MaxPrompts prompts, all the same text or two
\* texts in turn
PromptLists ==
    {[i \in 1 .. n |-> IF i % 2 = 1 THEN a ELSE b] :
        n \in 0 .. MaxPrompts, a \in PromptTexts, b \in PromptTexts}

BsIdle ==
    /\ rows = <<>> /\ exclude_lines = {} /\ currency_type = "KES"
    /\ nested_json = <<>> /\ formatted = <<>> /\ shared_nodes = {}

InitLlm ==
    /\ pc = "prompts"
    /\ prompts \in PromptLists
    /\ max_workers \in {1, 2, DefaultMaxWorkers}
    /\ futures = <<>>
    /\ results = <<>>
    /\ BsIdle
    /\ ScaleIdle
    /\ RaIdle

\* results = [None] * len(prompts) and the submission of every worker
Submit ==
    /\ pc = "prompts"
    /\ results' = [i \in DOMAIN prompts |-> NONE]
    /\ futures' = [i \in DOMAIN prompts |->
                      [idx |-> i, prompt |-> prompts[i], st |-> "queued",
                       http |-> NONE, outcome |-> NONE]]
    /\ pc' = "waiting"
    /\ UNCHANGED <<bsVars, currency_type, scaleVars, prompts, max_workers, raVars>>

Running == {i \in DOMAIN futures : futures[i].st = "running"}

\* a thread of the pool takes the oldest queued call and sends its request
Start(k) ==
    /\ pc = "waiting"
    /\ futures[k].st = "queued"
    /\ \A j \in 1 .. k - 1 : futures[j].st # "queued"
    /\ Cardinality(Running) < max_workers
    /\ futures' = [futures EXCEPT ![k].st = "running"]
    /\ UNCHANGED <<pc, bsVars, currency_type, scaleVars, prompts, max_workers,
                   results,
                   raVars>>

\* the exchange of a running call ends and its worker runs to its end
Finish(k) ==
    /\ pc = "waiting"
    /\ futures[k].st = "running"
    /\ \E http \in Exchanges(futures[k].prompt) :
          LET outcome == WorkerHandler(WorkerBody(http)) IN
          /\ futures' = [futures EXCEPT ![k].st = "done", ![k].http = http,
                                        ![k].outcome = outcome]
          /\ results' = IF outcome.raised = ""
                        THEN [results EXCEPT
                                 ![WriteSlot(futures[k], results)] = outcome.text]
                        ELSE results
    /\ UNCHANGED <<pc, bsVars, currency_type, scaleVars, prompts, max_workers,
                   raVars>>

\* concurrent.futures.wait(futures); return results
Return ==
    /\ pc = "waiting"
    /\ \A i \in DOMAIN futures : futures[i].st = "done"
    /\ pc' = "returned"
    /\ UNCHANGED <<bsVars, currency_type, scaleVars, llmVars, raVars>>

NextLlm ==
    \/ Submit
    \/ \E k \in DOMAIN futures : Start(k)
    \/ \E k \in DOMAIN futures : Finish(k)
    \/ Return

SpecLlm == InitLlm /\ [][NextLlm]_vars

----------------------------------------------------------------------------
(* summarize_bs_movements on the formatted tree. *)

\* the terms that put a category into the balance-sheet prompt, and into the
\* income-statement prompt
BalanceSheetTerms == {<<"A","S","S","E","T">>, <<"L","I","A","B","I","L","I","T","Y">>}
IncomeStatementTerms == {<<"I","N","C","O","M","E">>, <<"E","X","P","E","N","S","E">>}

balance_sheet_items(tree) ==
    {i \in DOMAIN tree :
        \E term \in BalanceSheetTerms :
            Contains(term, Upper(tree[i].MGT_LINE_DESCRIPTION))}

income_statement_items(tree) ==
    {i \in DOMAIN tree \ balance_sheet_items(tree) :
        \E term \in IncomeStatementTerms :
            Contains(term, Upper(tree[i].MGT_LINE_DESCRIPTION))}

\* the categories whose sources get a summary: those narrated with their
\* counterparties and those narrated with their sub-lines
CustomerSummaryLines == {TotalAssets, TotalLiability}
SublineSummaryLines == {TotalIncome, TotalExpense}

\* what the model may send back for a summary prompt: also a text that opens
\* with a heading
SummaryExchanges ==
    Exchanges("src_prompt")
    \cup {[raised |-> "", status |-> 200, json |-> "content",
           content |-> <<"**Executive Summary**:", " ", "answer to src_prompt">>]}

\* re.sub(r"(?i)^\W*(\*\*)?executive\s+summary(\*\*)?\W*[:\-]?\s*", "", s)
StripHeading(s) ==
    IF s # <<>> /\ s[1] = "**Executive Summary**:"
    THEN LET solid == {i \in 2 .. Len(s) : s[i] # " "} IN
         IF solid = {} THEN <<>> ELSE SubSeq(s, SetMin(solid), Len(s))
    ELSE s

\* the text stored for a source from what the call returned
SummaryText(raw) == Strip(StripHeading(StripThink(Strip(raw))))

\* a source left as it is
SameSource(src, text) == src

\* src["SUMMARY"] = src_summary
AttachSummary(src, text) == ("SUMMARY" :> text) @@ src

\* the loop over the tree that attaches the summaries
AttachSummaries(tree, text) ==
    [i \in DOMAIN tree |->
        IF tree[i].MGT_LINE_DESCRIPTION \in CustomerSummaryLines
           \/ tree[i].MGT_LINE_DESCRIPTION \in SublineSummaryLines
        THEN [tree[i] EXCEPT !.SIGNIFICANT_SOURCES =
                 [j \in DOMAIN @ |-> AttachSummary(@[j], text)]]
        ELSE tree[i]]

\* summaries, agg_json_formatted = summarize_bs_movements(agg_json_formatted,
\* ...), every call of the run meeting the same exchange.  A null content
\* ends the run at the first call, the introduction's at the latest, with
\* AttributeError; the return raises UnboundLocalError when the tree has no
\* balance-sheet or no income-statement category.
Summarize ==
    /\ pc = "formatted"
    /\ \E http \in SummaryExchanges :
          LET raw == call_vllm_completion_or_chat(http) IN
          IF raw.none
          THEN /\ pc' = "raised"
               /\ formatted' = formatted
          ELSE /\ formatted' = AttachSummaries(formatted, SummaryText(raw.text))
               /\ pc' = IF balance_sheet_items(formatted) # {}
                           /\ income_statement_items(formatted) # {}
                        THEN "summarized"
                        ELSE "raised"
    /\ UNCHANGED <<rows, exclude_lines, currency_type, nested_json,
                   shared_nodes, scaleVars, llmVars,
                   raVars>>

NextBS == Build \/ Format \/ Summarize

SpecBS == InitBS /\ [][NextBS]_vars

----------------------------------------------------------------------------
(* The Leakage Aggregator: get_overcharge_and_undercharge_aggregations.    *)

\* Default number of SOC rows to return per leakage type
TOP_N_DEFAULT == 3

Corporate == <<"C","o","r","p","o","r","a","t","e">>
Retail == <<"R","e","t","a","i","l">>

\* one row of the leakage query; every key column holds a value
LeakageRow(line, contract, bd, mtd, ccy, bal) ==
    [BUSINESS_LINE_DESCRIPTION |-> line,
     SBU_DESCRIPTION |-> IF line = Corporate THEN <<"C","I","B">> ELSE <<"S","M","E">>,
     VISION_OUC_DESCRIPTION |-> <<"H","Q">>,
     AO_NAME |-> <<"A","n","n">>,
     CHANNEL_TYPE_DESCRIPTION |-> <<"A","T","M">>,
     CUSTOMER_ID |-> 1,
     CUSTOMER_NAME |-> <<"A","c","m","e">>,
     CONTRACT_ID |-> contract,
     BUSINESS_DAY |-> bd, MTD |-> mtd, CCY_TYPE |-> ccy, BAL_TYPE |-> bal]

\* a label the table leaves NULL: None in the frame
NullLabel == <<"NULL">>

\* the row with its segment left NULL
NoSegment(row) == [row EXCEPT !.SBU_DESCRIPTION = NullLabel]

\* groupby leaves out the rows with a null in a key column (dropna=True)
DropNullKeys(df, cols) ==
    SelectSeq(df, LAMBDA r : \A i \in DOMAIN cols :
                                ToString(r[cols[i]]) # ToString(NullLabel))

soc_group_cols ==
    <<"BUSINESS_LINE_DESCRIPTION", "SBU_DESCRIPTION", "VISION_OUC_DESCRIPTION",
      "AO_NAME", "CHANNEL_TYPE_DESCRIPTION", "CUSTOMER_ID", "CUSTOMER_NAME",
      "CONTRACT_ID">>

\* df[df.CCY_TYPE == "LCY"] with BUSINESS_DAY and MTD replaced by their abs()
LcyAbs(df) ==
    LET lcy == SelectSeq(df, LAMBDA r : r.CCY_TYPE = "LCY")
    IN [i \in DOMAIN lcy |->
          [lcy[i] EXCEPT !.BUSINESS_DAY = Abs(@), !.MTD = Abs(@)]]

\* df[df["BAL_TYPE"] == 208] for overcharge, 207 for undercharge
BalTypeOf(leakage_type) == IF leakage_type = "overcharge" THEN 208 ELSE 207
LeakageFrame(df, leakage_type) ==
    SelectSeq(df, LAMBDA r : r.BAL_TYPE = BalTypeOf(leakage_type))

build_totals(df) ==
    [today |-> SumColumn(df, "BUSINESS_DAY"), mtd |-> SumColumn(df, "MTD")]

\* df.groupby(cols)[["BUSINESS_DAY", "MTD"]].sum(): one record per key, keys
\* sorted
LeakageGroupSums(df, cols) ==
    LET keyed == DropNullKeys(df, cols)
        keys == SortKeys(cols, {KeyOf(keyed[i], cols) : i \in DOMAIN keyed})
    IN [g \in DOMAIN keys |->
          LET members == SelectSeq(keyed, LAMBDA r : KeyOf(r, cols) = keys[g])
          IN [key |-> keys[g],
              BUSINESS_DAY |-> SumColumn(members, "BUSINESS_DAY"),
              MTD |-> SumColumn(members, "MTD")]]

\* sort_values(by=["BUSINESS_DAY", "MTD"], ascending=False): a sort on
\* several columns is stable, so groups equal on both stay in the order of
\* the frame sorted
SortValuesDescending(groups) ==
    LET before(j, i) ==
            \/ groups[j].BUSINESS_DAY > groups[i].BUSINESS_DAY
            \/ /\ groups[j].BUSINESS_DAY = groups[i].BUSINESS_DAY
               /\ groups[j].MTD > groups[i].MTD
            \/ /\ groups[j].BUSINESS_DAY = groups[i].BUSINESS_DAY
               /\ groups[j].MTD = groups[i].MTD
               /\ j < i
        pos(i) == 1 + Cardinality({j \in DOMAIN groups : before(j, i)})
    IN [p \in DOMAIN groups |-> groups[CHOOSE i \in DOMAIN groups : pos(i) = p]]

top_soc(df, top_n) ==
    Take(SortValuesDescending(LeakageGroupSums(df, soc_group_cols)), top_n)

\* the block of text of one group: its labelled fields
format_agg_row(row, currency, leakage_type) ==
    [amount_label |-> IF leakage_type = "overcharge" THEN "Overcharge"
                      ELSE "Undercharge",
     currency |-> currency,
     key |-> row.key,
     BUSINESS_DAY |-> row.BUSINESS_DAY,
     MTD |-> row.MTD]

\* ldf.groupby("SBU_DESCRIPTION")[[...]].sum().to_dict(orient="index")
sbu_totals(ldf) ==
    LET sums == LeakageGroupSums(ldf, <<"SBU_DESCRIPTION">>)
    IN [sbu \in {sums[g].key[1] : g \in DOMAIN sums} |->
          LET g == CHOOSE g \in DOMAIN sums : sums[g].key[1] = sbu
          IN [BUSINESS_DAY |-> sums[g].BUSINESS_DAY, MTD |-> sums[g].MTD]]

LeakageTypes == {"overcharge", "undercharge"}

get_overcharge_and_undercharge_aggregations(df, currency) ==
    [leakage_type \in LeakageTypes |->
        LET ldf == LeakageFrame(LcyAbs(df), leakage_type)
            top_soc_df == top_soc(ldf, TOP_N_DEFAULT)
        IN [totals |-> build_totals(ldf),
            sbu_totals |-> sbu_totals(ldf),
            agg_list |-> [i \in DOMAIN top_soc_df |->
                            format_agg_row(top_soc_df[i], currency, leakage_type)],
            agg_details |-> [i \in DOMAIN top_soc_df |->
                               [BUSINESS_DAY |-> top_soc_df[i].BUSINESS_DAY]],
            top_n |-> TOP_N_DEFAULT]]

\* rows in local currency of either leakage type, of two business lines
LeakageRows ==
    {LeakageRow(line, 1, a[1], a[2], "LCY", bal) :
        line \in {Corporate, Retail},
        a \in {<<100, 500>>, <<-100, 500>>, <<100, 200>>},
        bal \in {207, 208}}

\* five contracts of one line, the fourth and fifth the largest, with a row
\* in foreign currency and a row of another balance type
ExampleLeakage ==
    <<LeakageRow(Retail, 5, 100, 10, "LCY", 208),
      LeakageRow(Retail, 4, 100, 10, "LCY", 208),
      LeakageRow(Retail, 3, 300, 10, "LCY", 208),
      LeakageRow(Retail, 2, -400, 10, "LCY", 208),
      LeakageRow(Retail, 1, 400, 20, "LCY", 208),
      LeakageRow(Retail, 1, 900, 90, "FCY", 208),
      LeakageRow(Retail, 1, 900, 90, "LCY", 1)>>

\* an overcharge row without segment beside one with, an undercharge row and
\* an undercharge row in foreign currency
ExampleNoSegment ==
    <<LeakageRow(Retail, 1, 100, 10, "LCY", 208),
      NoSegment(LeakageRow(Retail, 2, -50, 5, "LCY", 208)),
      LeakageRow(Corporate, 1, 30, 3, "LCY", 207),
      LeakageRow(Retail, 1, 900, 90, "FCY", 207)>>

InitRa ==
    /\ pc = "leakage"
    /\ leakage_df \in SeqsUpTo(LeakageRows, MaxRows)
                        \cup {ExampleLeakage, ExampleNoSegment}
    /\ leakage_result = NONE
    /\ business_line = NONE /\ recommendations = NONE /\ report = NONE
    /\ BsIdle
    /\ ScaleIdle
    /\ LlmIdle

\* agg = get_overcharge_and_undercharge_aggregations(df, currency_type)
Aggregate ==
    /\ pc = "leakage"
    /\ leakage_result' =
          get_overcharge_and_undercharge_aggregations(leakage_df, currency_type)
    /\ pc' = "aggregated"
    /\ UNCHANGED <<bsVars, currency_type, scaleVars, llmVars, leakage_df,
                   business_line, recommendations, report>>

NextRa == Aggregate

SpecRa == InitRa /\ [][NextRa]_vars

----------------------------------------------------------------------------
(* The whole model. *)

----------------------------------------------------------------------------
(* The leakage report: run_ra_summary_pipeline after the aggregation.      *)

\* what concurrent_llm_calls(prompts) may do for n prompts: return n
\* narrations, return n placeholders, or fail to start its threads
PoolOutcomes(n, lead, answer) ==
    {Returns([i \in 1 .. n |-> lead \o <<answer \o ToString(i)>>]),
     Returns([i \in 1 .. n |-> ErrorText]),
     Raises("RuntimeError")}

\* the header of agent_business_line_summary for its number of groups
BusinessLineHeader(n) ==
    CASE n = 1 -> "Only one"
      [] n = 2 -> "Only two"
      [] OTHER -> "Following are the top"

\* except Exception of agent_business_line_summary
BusinessLineHandler(agg_list, exc) ==
    [header |-> "Error generating", agg_list |-> <<>>,
     summary_list |-> << <<"Error: " \o exc>> >>]

\* agent_business_line_summary(agg, charge_type, ...); call is what
\* concurrent_llm_calls does with the prompts, one per group
agent_business_line_summary(agg, charge_type, call) ==
    LET agg_list == agg[charge_type].agg_list IN
    IF agg_list = <<>>
    THEN [header |-> "No", agg_list |-> <<>>, summary_list |-> <<>>]
    ELSE IF call.raised # ""
    THEN BusinessLineHandler(agg_list, call.raised)
    ELSE [header |-> BusinessLineHeader(Len(agg_list)), agg_list |-> agg_list,
          summary_list |-> call.text]

recommendation_list_undercharge_partial ==
    <<"Incorrect rate or slab applied", "Tiered Pricing mismatch",
      "FX Rate Variance", "Delayed pricing update",
      "Manual Intervention or Override",
      "Missing Parameters in charge formula", "Partial Reversal",
      "Wrong unit of measure applied", "Rounded-Off or truncated values">>

recommendation_list_overcharge ==
    <<"Duplicate charge posting", "Higher-than-configured rate applied",
      "Charges applied despite waiver or exemption",
      "Outdated or obsolete configuration used",
      "Wrong unit of measure applied",
      "Manual charge entry without proper authorization",
      "Double charges due to system retry or timeout">>

RecommendationList(charge_type) ==
    IF charge_type = "overcharge" THEN recommendation_list_overcharge
    ELSE recommendation_list_undercharge_partial

\* clean_recommendation: the markdown marks removed, a leading
\* 'Recommendation' label with its colon or period removed, then strip()
clean_recommendation(text) ==
    LET plain == Strip(SelectSeq(text, LAMBDA t : t # "**"))
        rest == IF plain # <<>> /\ plain[1] = "Recommendation"
                THEN Strip(Tail(plain)) ELSE plain
        body == IF rest # plain /\ rest # <<>> /\ rest[1] \in {":", "."}
                THEN Tail(rest) ELSE rest
    IN Strip(body)

\* generate_recommendations(summary_list, recommendation_list, ...)
generate_recommendations(summary_list, recommendation_list, call) ==
    IF summary_list = <<>> \/ recommendation_list = <<>>
    THEN [i \in DOMAIN summary_list |-> <<>>]
    ELSE IF call.raised # ""
    THEN [i \in DOMAIN summary_list |-> <<>>]
    ELSE [i \in DOMAIN call.text |-> clean_recommendation(call.text[i])]

\* list(zip(a, b, c)): as long as the shortest of the three
Zip(a, b, c) ==
    [i \in 1 .. SetMin({Len(a), Len(b), Len(c)}) |-> <<a[i], b[i], c[i]>>]

\* leakage rows of up to three overcharge groups and one undercharge group
ReportRows ==
    {LeakageRow(Retail, 1, 100, 10, "LCY", 208),
     LeakageRow(Retail, 2, 200, 20, "LCY", 208),
     LeakageRow(Corporate, 1, 300, 30, "LCY", 208),
     LeakageRow(Corporate, 2, 50, 5, "LCY", 207)}

InitReport ==
    /\ pc = "leakage"
    /\ leakage_df \in (SeqsUpTo(ReportRows, MaxRows) \ {<<>>})
    /\ leakage_result = NONE
    /\ business_line = NONE /\ recommendations = NONE /\ report = NONE
    /\ BsIdle
    /\ ScaleIdle
    /\ LlmIdle

\* overcharge_header, overcharge_agg_list, overcharge_summaries =
\* agent_business_line_summary(agg, "overcharge", ...), and the same for
\* undercharge
BusinessLines ==
    /\ pc = "aggregated"
    /\ \E call \in [LeakageTypes ->
                       UNION {PoolOutcomes(n, <<>>, "summary of #") :
                                 n \in 0 .. TOP_N_DEFAULT}] :
          /\ \A d \in LeakageTypes :
                call[d].raised = ""
                    => Len(call[d].text) = Len(leakage_result[d].agg_list)
          /\ business_line' =
                [d \in LeakageTypes |->
                    agent_business_line_summary(leakage_result, d, call[d])]
    /\ pc' = "business lines"
    /\ UNCHANGED <<bsVars, currency_type, scaleVars, llmVars, leakage_df,
                   leakage_result, recommendations, report>>

\* overcharge_recommendations = generate_recommendations(
\* overcharge_summaries, recommendation_list_overcharge, ...), and the same
\* for undercharge
Recommend ==
    /\ pc = "business lines"
    /\ \E call \in [LeakageTypes ->
                       UNION {PoolOutcomes(n, <<"**", "Recommendation", ":",
                                                 "**", " ">>, "act on #") :
                                 n \in 0 .. TOP_N_DEFAULT}] :
          /\ \A d \in LeakageTypes :
                call[d].raised = ""
                    => Len(call[d].text) = Len(business_line[d].summary_list)
          /\ recommendations' =
                [d \in LeakageTypes |->
                    generate_recommendations(business_line[d].summary_list,
                                             RecommendationList(d), call[d])]
    /\ pc' = "recommended"
    /\ UNCHANGED <<bsVars, currency_type, scaleVars, llmVars, leakage_df,
                   leakage_result, business_line, report>>

\* summary_content: one numbered block per element of zip(aggs, summaries,
\* recommendations), for each direction
Assemble ==
    /\ pc = "recommended"
    /\ report' = [d \in LeakageTypes |->
                     Zip(business_line[d].agg_list,
                         business_line[d].summary_list, recommendations[d])]
    /\ pc' = "assembled"
    /\ UNCHANGED <<bsVars, currency_type, scaleVars, llmVars, leakage_df,
                   leakage_result, business_line, recommendations>>

NextReport == Aggregate \/ BusinessLines \/ Recommend \/ Assemble

SpecReport == InitReport /\ [][NextReport]_vars

Init == InitBS \/ InitOrder \/ InitScale \/ InitLlm \/ InitRa \/ InitReport

Next ==
    \/ Build \/ Format \/ Summarize
    \/ ScaleValue \/ Reformat
    \/ NextLlm
    \/ Aggregate
    \/ BusinessLines \/ Recommend \/ Assemble

Spec == Init /\ [][Next]_vars


----------------------------------------------------------------------------
(* Properties of the Hierarchy Builder. *)

Built == pc \in {"built", "formatted"} /\ rows # <<>>

\* the rows that pass the exclusion filter
KeptRows == SelectSeq(rows, LAMBDA r : r.SOURCE_MGT_LINE_DESC \notin exclude_lines)

RECURSIVE SumKept(_, _)
\* the sum of a column over the kept rows with index in S
SumKept(S, col) ==
    IF S = {} THEN 0
    ELSE LET i == CHOOSE x \in S : TRUE
         IN KeptRows[i][col] + SumKept(S \ {i}, col)

\* the sources of the top-level node t, and the sub-line and counterparty
\* nodes below a source
SourcesOf(t) == {t.SIGNIFICANT_SOURCES[i] : i \in DOMAIN t.SIGNIFICANT_SOURCES}
ListOf(node, key) ==
    IF key \in DOMAIN node THEN {node[key][i] : i \in DOMAIN node[key]} ELSE {}

TopNodes == {nested_json[i] : i \in DOMAIN nested_json}
SourceNodes == UNION {SourcesOf(t) : t \in TopNodes}
SublineNodes == UNION {ListOf(s, "SIGNIFICANT_MRLS") : s \in SourceNodes}
CounterpartyNodes ==
    UNION {ListOf(s, "POSITIVE_CUSTOMERS") \cup ListOf(s, "NEGATIVE_CUSTOMERS") :
              s \in SourceNodes}

\* C1: in the tree build_bs_nested_hierarchy returns, a node of any level
\* (top category, source, sub-line, counterparty) whose summed PREVIOUS_DAY is
\* zero has the absent value NA as its percentage change: not a number, not
\* infinity; and the change of every node is its current less its prior sum.
C1_ZeroPriorGivesAbsentPct ==
    Built =>
        /\ \A t \in TopNodes :
              /\ t.PREVIOUS_DAY = 0 => t.TL_PCT_CHANGE = NA
              /\ t.PREVIOUS_DAY # 0 =>
                    t.TL_PCT_CHANGE = Pct(t.BUSINESS_DAY - t.PREVIOUS_DAY, t.PREVIOUS_DAY)
        /\ \A n \in SourceNodes :
              /\ n.PREVIOUS_DAY = 0 => n.SRC_PCT_CHANGE = NA
              /\ n.PREVIOUS_DAY # 0 =>
                    n.SRC_PCT_CHANGE = Pct(n.BUSINESS_DAY - n.PREVIOUS_DAY, n.PREVIOUS_DAY)
        /\ \A n \in SublineNodes :
              /\ n.PREVIOUS_DAY = 0 => n.MRL_PCT_CHANGE = NA
              /\ n.PREVIOUS_DAY # 0 =>
                    n.MRL_PCT_CHANGE = Pct(n.BUSINESS_DAY - n.PREVIOUS_DAY, n.PREVIOUS_DAY)
        /\ \A n \in CounterpartyNodes :
              /\ n.PREVIOUS_DAY = 0 => n.CUST_PCT_CHANGE = NA
              /\ n.PREVIOUS_DAY # 0 =>
                    n.CUST_PCT_CHANGE = Pct(n.BUSINESS_DAY - n.PREVIOUS_DAY, n.PREVIOUS_DAY)

\* a tree with a zero prior sum at the source and the counterparty level next
\* to a counterparty whose prior sum is not zero
C1_Witness ==
    /\ pc = "built"
    /\ \E s \in SourceNodes : s.PREVIOUS_DAY = 0 /\ s.SRC_PCT_CHANGE = NA
    /\ \E c \in CounterpartyNodes : c.PREVIOUS_DAY = 0 /\ c.CUST_PCT_CHANGE = NA
    /\ \E c \in CounterpartyNodes : c.PREVIOUS_DAY # 0 /\ c.CUST_PCT_CHANGE # NA

\* a tree with a sub-line whose prior sum is zero
C1_WitnessSubline ==
    /\ pc = "built"
    /\ \E m \in SublineNodes : m.PREVIOUS_DAY = 0 /\ m.MRL_PCT_CHANGE = NA

\* the grouping key of a counterparty node
CounterpartyKey(r) ==
    <<r.MGT_LINE_DESCRIPTION, r.SOURCE_MGT_LINE, r.MRL_LINE, r.MRL_DESCRIPTION,
      r.CUSTOMER_ID, r.CUSTOMER_NAME, r.ACCOUNT_OFFICER, r.AO_NAME>>

\* the counterparty keys of the kept rows of (mgt, src)
CounterpartyKeys(mgt, src) ==
    {CounterpartyKey(KeptRows[i]) : i \in
        {j \in DOMAIN KeptRows : /\ KeptRows[j].MGT_LINE_DESCRIPTION = mgt
                                 /\ KeptRows[j].SOURCE_MGT_LINE = src}}

RowsOfCounterparty(k) == {i \in DOMAIN KeptRows : CounterpartyKey(KeptRows[i]) = k}

\* the change of the node of key k: the rows summed, then current less prior
ChangeOfKey(k) ==
    SumKept(RowsOfCounterparty(k), "BUSINESS_DAY")
    - SumKept(RowsOfCounterparty(k), "PREVIOUS_DAY")

\* the list entry e is the node of key k
IsNodeOfKey(e, k) ==
    /\ e.MRL_DESCRIPTION = k[4] /\ e.CUSTOMER_ID = k[5]
    /\ e.CUSTOMER_NAME = k[6] /\ e.ACCOUNT_OFFICER = k[7] /\ e.AO_NAME = k[8]
    /\ e.BUSINESS_DAY = SumKept(RowsOfCounterparty(k), "BUSINESS_DAY")
    /\ e.PREVIOUS_DAY = SumKept(RowsOfCounterparty(k), "PREVIOUS_DAY")
    /\ e.CUST_CHANGE = ChangeOfKey(k)

\* list holds, each once, the nodes of `chosen` keys of `keys`, and no key
\* left out comes before a chosen one in the order `better`
HoldsBest(list, keys, n, better(_, _)) ==
    /\ Len(list) = (IF Cardinality(keys) < n THEN Cardinality(keys) ELSE n)
    /\ \E f \in [DOMAIN list -> keys] :
          /\ \A i, j \in DOMAIN list : i # j => f[i] # f[j]
          /\ \A i \in DOMAIN list : IsNodeOfKey(list[i], f[i])
          /\ \A i \in DOMAIN list :
                \A o \in keys \ {f[j] : j \in DOMAIN list} :
                    ~better(ChangeOfKey(o), ChangeOfKey(f[i]))

CustChanges(list) == [i \in DOMAIN list |-> list[i].CUST_CHANGE]

\* C2: for every source of an asset/liability category, POSITIVE_CUSTOMERS
\* holds only counterparty nodes with change >= 0 and is the single one of
\* highest change, NEGATIVE_CUSTOMERS holds only nodes with change < 0 and is
\* the two of lowest change, most negative first; the changes
\* {+500, +300, -200, -900, -50} give POS = [+500], NEG = [-900, -200].
C2_TopPositiveAndNegative ==
    Built =>
        /\ \A t \in TopNodes : t.MGT_LINE_DESCRIPTION \in AssetLiability =>
              \A s \in SourcesOf(t) :
                 LET keys == CounterpartyKeys(t.MGT_LINE_DESCRIPTION, s.SOURCE_MGT_LINE)
                     pos == s.POSITIVE_CUSTOMERS
                     neg == s.NEGATIVE_CUSTOMERS
                 IN /\ \A i \in DOMAIN pos : pos[i].CUST_CHANGE >= 0
                    /\ \A i \in DOMAIN neg : neg[i].CUST_CHANGE < 0
                    /\ HoldsBest(pos, {k \in keys : ChangeOfKey(k) >= 0}, 1,
                                 LAMBDA a, b : a > b)
                    /\ HoldsBest(neg, {k \in keys : ChangeOfKey(k) < 0}, 2,
                                 LAMBDA a, b : a < b)
                    /\ \A i, j \in DOMAIN neg :
                          i < j => neg[i].CUST_CHANGE <= neg[j].CUST_CHANGE
        /\ rows = ExampleCustomers =>
              \A s \in SourceNodes :
                 /\ CustChanges(s.POSITIVE_CUSTOMERS) = <<500>>
                 /\ CustChanges(s.NEGATIVE_CUSTOMERS) = <<-900, -200>>

\* the tree of the changes {+500, +300, -200, -900, -50}
C2_Witness ==
    /\ pc = "built"
    /\ rows = ExampleCustomers
    /\ \E s \in SourceNodes :
          /\ CustChanges(s.POSITIVE_CUSTOMERS) = <<500>>
          /\ CustChanges(s.NEGATIVE_CUSTOMERS) = <<-900, -200>>

\* the rows A +1000, B -500, B -4000 of one source, B's in one sub-line
ExampleMerged ==
    <<CustRow(TotalAssets, 1, Loans, 1, 1, 1000, 0),
      CustRow(TotalAssets, 1, Loans, 1, 2, 0, 500),
      CustRow(TotalAssets, 1, Loans, 1, 2, 0, 4000)>>

\* C3 as stated: a counterparty id appears at most once across the
\* POSITIVE_CUSTOMERS and NEGATIVE_CUSTOMERS lists of a source.
C3_OneEntryPerCounterpartyId ==
    Built =>
        \A t \in TopNodes : t.MGT_LINE_DESCRIPTION \in AssetLiability =>
            \A s \in SourcesOf(t) :
               LET both == s.POSITIVE_CUSTOMERS \o s.NEGATIVE_CUSTOMERS
               IN \A i, j \in DOMAIN both :
                     i # j => both[i].CUSTOMER_ID # both[j].CUSTOMER_ID

\* C3 as amended: all rows of one counterparty under one (top category,
\* source) pair that share the sub-line (code and label), the counterparty
\* name and the officer are summed into a single counterparty node before its
\* change is derived, so each entry of the POSITIVE_CUSTOMERS and
\* NEGATIVE_CUSTOMERS lists of a source is the sum of all rows of its key and
\* no key has more than one entry (rows A +1000, B -500, B -4000 in one
\* sub-line give one POS entry for A and one NEG entry for B of change -4500).
C3_OneEntryPerSublineCounterparty ==
    Built =>
        /\ \A t \in TopNodes : t.MGT_LINE_DESCRIPTION \in AssetLiability =>
              \A s \in SourcesOf(t) :
                 LET keys == CounterpartyKeys(t.MGT_LINE_DESCRIPTION, s.SOURCE_MGT_LINE)
                     both == s.POSITIVE_CUSTOMERS \o s.NEGATIVE_CUSTOMERS
                 IN \E f \in [DOMAIN both -> keys] :
                       /\ \A i, j \in DOMAIN both : i # j => f[i] # f[j]
                       /\ \A i \in DOMAIN both : IsNodeOfKey(both[i], f[i])
        /\ rows = ExampleMerged =>
              \A s \in SourceNodes :
                 /\ CustChanges(s.POSITIVE_CUSTOMERS) = <<1000>>
                 /\ CustChanges(s.NEGATIVE_CUSTOMERS) = <<-4500>>

\* the tree of the rows A +1000, B -500, B -4000
C3_Witness ==
    /\ pc = "built"
    /\ rows = ExampleMerged
    /\ \E s \in SourceNodes :
          /\ Len(s.POSITIVE_CUSTOMERS) = 1 /\ s.POSITIVE_CUSTOMERS[1].CUSTOMER_ID = 1
          /\ Len(s.NEGATIVE_CUSTOMERS) = 1 /\ s.NEGATIVE_CUSTOMERS[1].CUSTOMER_ID = 2
          /\ s.NEGATIVE_CUSTOMERS[1].CUST_CHANGE = -4500

\* the sub-line keys of the kept rows of (mgt, src)
SublinesOf(mgt, src) ==
    {KeptRows[i].MRL_LINE : i \in
        {j \in DOMAIN KeptRows : /\ KeptRows[j].MGT_LINE_DESCRIPTION = mgt
                                 /\ KeptRows[j].SOURCE_MGT_LINE = src}}

\* the summed month-to-date of sub-line mrl of (mgt, src)
MtdOfSubline(mgt, src, mrl) ==
    SumKept({i \in DOMAIN KeptRows : /\ KeptRows[i].MGT_LINE_DESCRIPTION = mgt
                                     /\ KeptRows[i].SOURCE_MGT_LINE = src
                                     /\ KeptRows[i].MRL_LINE = mrl}, "MTD")

MrlMtds(list) == [i \in DOMAIN list |-> list[i].MRL_MTD]

C4_WitnessEmpty ==
    /\ pc = "built"
    /\ rows = ExampleNoPositive
    /\ \E s \in SourceNodes : s.SIGNIFICANT_MRLS = <<>>


----------------------------------------------------------------------------
(* Properties of the Tree Formatter/Orderer. *)

Range(q) == {q[i] : i \in DOMAIN q}

\* the categories of a list of top-level nodes, in list order
CategoriesOf(tree) == [i \in DOMAIN tree |-> tree[i].MGT_LINE_DESCRIPTION]

\* the source labels of a top-level node, in list order
SourceLabelsOf(t) ==
    [j \in DOMAIN t.SIGNIFICANT_SOURCES |->
        t.SIGNIFICANT_SOURCES[j].SOURCE_MGT_LINE_DESC]

NamedCategories == <<TotalAssets, TotalLiability, TotalIncome, TotalExpense>>

\* C5: format_nested_amounts outputs the top-level nodes in the order Total
\* Assets, Total Liability, Total Income, Total Expense, followed by every
\* other category in the relative order of the input list; the input
\* [OtherX, Total Expense, Total Assets, Total Income, Total Liability] gives
\* [Total Assets, Total Liability, Total Income, Total Expense, OtherX].
C5_TopLevelOrder ==
    pc = "formatted" =>
        /\ CategoriesOf(formatted) =
              SelectSeq(NamedCategories,
                        LAMBDA c : c \in Range(CategoriesOf(nested_json)))
              \o SelectSeq(CategoriesOf(nested_json),
                           LAMBDA c : c \notin Range(NamedCategories))
        /\ CategoriesOf(nested_json) =
              <<OtherX, TotalExpense, TotalAssets, TotalIncome, TotalLiability>>
           => CategoriesOf(formatted) =
              <<TotalAssets, TotalLiability, TotalIncome, TotalExpense, OtherX>>

\* the input [OtherX, Total Expense, Total Assets, Total Income, Total
\* Liability], formatted
C5_Witness ==
    /\ pc = "formatted"
    /\ CategoriesOf(nested_json) =
          <<OtherX, TotalExpense, TotalAssets, TotalIncome, TotalLiability>>
    /\ CategoriesOf(formatted) =
          <<TotalAssets, TotalLiability, TotalIncome, TotalExpense, OtherX>>

\* a label trimmed and folded to lower case
Norm(label) == Lower(Strip(label))

\* the places of label in a priority list, by normalised label
PlacesIn(list, label) == {i \in DOMAIN list : Norm(list[i]) = Norm(label)}

\* labels is ordered by `list`: the labels matching list first and in the
\* order of list, the unmatched ones next, the label `other` last
OrderedBy(labels, list, other) ==
    LET prio(d) == PlacesIn(list, d) # {}
        residual(d) == ~prio(d) /\ Norm(d) = Norm(other)
    IN \A a, b \in DOMAIN labels : a < b =>
          /\ prio(labels[b]) => prio(labels[a])
          /\ prio(labels[a]) /\ prio(labels[b]) =>
                SetMin(PlacesIn(list, labels[a])) <= SetMin(PlacesIn(list, labels[b]))
          /\ residual(labels[a]) => residual(labels[b])

\* the output node of category mgt carries the sources of the input node,
\* each as often as the input does
SameSources(out) ==
    \E k \in DOMAIN nested_json :
        /\ nested_json[k].MGT_LINE_DESCRIPTION = out.MGT_LINE_DESCRIPTION
        /\ Len(nested_json[k].SIGNIFICANT_SOURCES) = Len(out.SIGNIFICANT_SOURCES)
        /\ \A d \in Range(SourceLabelsOf(nested_json[k])) :
              Cardinality({j \in DOMAIN out.SIGNIFICANT_SOURCES :
                              SourceLabelsOf(out)[j] = d})
              = Cardinality({j \in DOMAIN nested_json[k].SIGNIFICANT_SOURCES :
                              SourceLabelsOf(nested_json[k])[j] = d})

\* C6: within each of the four named top-level categories,
\* format_nested_amounts orders the sources so that every source whose
\* trimmed, case-insensitive label matches the priority list of the category
\* comes first, in priority-list order, every unmatched source comes after
\* all priority sources, and the residual 'other' label of the category comes
\* after every other source.
C6_SourceOrder ==
    pc = "formatted" =>
        \A i \in DOMAIN formatted :
            formatted[i].MGT_LINE_DESCRIPTION \in Range(NamedCategories) =>
                /\ SameSources(formatted[i])
                /\ OrderedBy(SourceLabelsOf(formatted[i]),
                             source_priority(formatted[i].MGT_LINE_DESCRIPTION),
                             other_src(formatted[i].MGT_LINE_DESCRIPTION))

\* Total Assets with the sources [OTHER ASSETS, Mortgages, " loans "]
C6_Witness ==
    /\ pc = "formatted"
    /\ Len(nested_json) = 1
    /\ nested_json[1].MGT_LINE_DESCRIPTION = TotalAssets
    /\ SourceLabelsOf(nested_json[1]) = <<OtherAssetsUpper, Mortgages, LoansPadded>>
    /\ SourceLabelsOf(formatted[1]) = <<LoansPadded, Mortgages, OtherAssetsUpper>>

\* the orders of the docstring of format_nested_amounts
DocumentedPriority(mgt_desc) ==
    IF mgt_desc \in {TotalAssets, TotalIncome}
    THEN <<Loans, Overdrafts, PublicSecurities, GovernmentSecurities>>
    ELSE <<HighCostDeposits, LowCostDeposits, LongTermBorrowings,
           InterbankBorrowings>>

DocumentedOther(mgt_desc) ==
    IF mgt_desc \in {TotalAssets, TotalIncome} THEN OtherAssets
    ELSE OtherLiabilities

\* C7: format_nested_amounts orders the sources of Total Assets and Total
\* Income as Loans, Overdrafts, Public Securities, Government Securities, then
\* other sources, with Other Assets last; and the sources of Total Liability
\* and Total Expense as High Cost Deposits, Low Cost Deposits, Long Term
\* Borrowings, Interbank Borrowings, then other sources, with Other
\* Liabilities last.
C7_DocumentedSourceOrder ==
    pc = "formatted" =>
        \A i \in DOMAIN formatted :
            formatted[i].MGT_LINE_DESCRIPTION \in Range(NamedCategories) =>
                OrderedBy(SourceLabelsOf(formatted[i]),
                          DocumentedPriority(formatted[i].MGT_LINE_DESCRIPTION),
                          DocumentedOther(formatted[i].MGT_LINE_DESCRIPTION))

\* Total Liability with the sources [High Cost Deposits, Low Cost Deposits]
\* comes out as [Low Cost Deposits, High Cost Deposits]
C7_Reversed ==
    /\ pc = "formatted"
    /\ Len(nested_json) = 1
    /\ nested_json[1].MGT_LINE_DESCRIPTION = TotalLiability
    /\ SourceLabelsOf(nested_json[1]) = <<HighCostDeposits, LowCostDeposits>>
    /\ SourceLabelsOf(formatted[1]) = <<LowCostDeposits, HighCostDeposits>>

\* the tree as format_nested_amounts orders it, before any amount is rendered
OrderedTree ==
    SortTopLevel([i \in DOMAIN nested_json |->
                     sort_significant_sources(nested_json[i])])

\* the pairs <<node before rendering, node after rendering>> of a list
PairsOf(before, after) == {<<before[i], after[i]>> : i \in DOMAIN before}

ChildKeys == {"SIGNIFICANT_MRLS", "POSITIVE_CUSTOMERS", "NEGATIVE_CUSTOMERS"}

TopPairs == PairsOf(OrderedTree, formatted)
SourcePairs ==
    UNION {PairsOf(p[1].SIGNIFICANT_SOURCES, p[2].SIGNIFICANT_SOURCES) :
              p \in TopPairs}
ChildPairs(key) ==
    UNION {PairsOf(p[1][key], p[2][key]) :
              p \in {q \in SourcePairs : key \in DOMAIN q[1]}}
NodePairs ==
    TopPairs \cup SourcePairs \cup UNION {ChildPairs(key) : key \in ChildKeys}

\* the change of a node and its rendering
ChangeOf(node) == node[CHOOSE k \in ChangeKeys : k \in DOMAIN node]
ChangeTextOf(node) ==
    node[CHOOSE k \in {"Increase_Amount", "Decrease_Amount"} : k \in DOMAIN node]

\* the copy of amount k is a rendering (not the raw number) at the relative
\* scale of the change of the node, with the suffix of its change amount
RelativeCopy(before, after, k) ==
    /\ k \in DOMAIN after
    /\ ToString(after[k]) # ToString(before[k])
    /\ after[k] = format_fixed_scale(currency_type, Dec(before[k], 0),
                      get_scale_info(Dec(ChangeOf(before), 0)).divisor,
                      get_scale_info(Dec(ChangeOf(before), 0)).suffix, 0)
    /\ after[k].suf = ChangeTextOf(after).suf

\* C8: in every formatted node, the presentation copies of BUSINESS_DAY,
\* PREVIOUS_DAY and the month-to-date amount stored under their original
\* field names use exactly the divisor and suffix that the relative-scale
\* policy yields for the change of that node, the divisor and suffix of its
\* Increase_Amount/Decrease_Amount.
C8_RelativeCopies ==
    pc = "formatted" =>
        \A p \in NodePairs :
            \A k \in amount_keys \cap DOMAIN p[1] : RelativeCopy(p[1], p[2], k)

\* the same with the month-to-date amount of the sub-line nodes left out:
\* what the formatter does
RelativeCopiesButSubline ==
    pc = "formatted" =>
        \A p \in NodePairs :
            \A k \in (amount_keys \ {"MRL_MTD"}) \cap DOMAIN p[1] :
                RelativeCopy(p[1], p[2], k)

\* a formatted sub-line node whose month-to-date amount is the raw number
C8_RawSublineAmount ==
    /\ pc = "formatted"
    /\ rows = ExampleLargeChange
    /\ \E p \in ChildPairs("SIGNIFICANT_MRLS") :
          /\ ToString(p[2].MRL_MTD) = ToString(300)
          /\ p[2].BUSINESS_DAY = Text(CurrencySymbol("KES"), "", 12, 0, "M")

----------------------------------------------------------------------------
(* Properties of the Scale Formatter. *)

\* the divisors of the relative-scale policy, as exponents of 10
RelativeDivisors == {12, 9, 6, 3}

\* C9: _get_scale_info returns divisor 1 and the empty suffix when
\* |value| < 1e3 or |value| is in [1e3, 1e4), and otherwise the largest
\* divisor d in {1e12, 1e9, 1e6, 1e3} with |value| / d >= 10, with the suffix
\* of d; 12,345,000 gives (1e6, M) and 8,000 gives (1, no suffix).
C9_RelativeScale ==
    pc \in {"scaled", "reformatted"} =>
        /\ ~AbsGE(value, 4) => scale_info = ScaleInfo(0, "")
        /\ AbsGE(value, 4) =>
              /\ scale_info.divisor \in RelativeDivisors
              /\ AbsGE(value, scale_info.divisor + 1)
              /\ \A d \in RelativeDivisors :
                    AbsGE(value, d + 1) => d <= scale_info.divisor
              /\ SuffixDivisor(scale_info.suffix) = scale_info.divisor
        /\ value = Dec(12345, 3) => scale_info = ScaleInfo(6, "M")
        /\ value = Dec(8, 3) => scale_info = ScaleInfo(0, "")

\* 12,345,000 under the relative-scale policy
C9_Witness ==
    /\ pc = "scaled"
    /\ value = Dec(12345, 3)
    /\ scale_info = ScaleInfo(6, "M")

\* 8,000 under the relative-scale policy
C9_WitnessSmall ==
    /\ pc = "scaled"
    /\ value = Dec(8, 3)
    /\ scale_info = ScaleInfo(0, "")

\* C10: fixed-scale formatting round-trips: for every value v, formatting v
\* with the fixed-scale policy at 2 decimals, parsing the displayed number and
\* suffix back into a number v', and formatting v' again with the fixed-scale
\* policy yields the same string as the first formatting.
C10_FixedRoundTrip ==
    pc = "reformatted" => refixed_text = fixed_text

\* 999,999 is displayed as 1,000.00K, read back as 1,000,000 and displayed
\* as 1.00M
C10_BoundaryValue ==
    /\ pc = "reformatted"
    /\ value = Dec(999999, 0)
    /\ fixed_text = Text(CurrencySymbol(currency_type), "", 100000, 2, "K")
    /\ refixed_text = Text(CurrencySymbol(currency_type), "", 100, 2, "M")


\* C11: the standalone fixed-scale call format_scaled_amount renders a
\* negative value as currency symbol, then exactly one minus sign, then the
\* scaled magnitude with 2 decimals, then the suffix:
\* format_scaled_amount(-1234, "INR") returns the rupee sign, "-1.23" and "K".
C11_OneMinusSign ==
    pc \in {"scaled", "reformatted"} =>
        /\ IsNegative(value) =>
              /\ scaled_text.sym = CurrencySymbol(currency_type)
              /\ scaled_text.sign = "-"
              /\ scaled_text.dec = 2
              /\ scaled_text.mag =
                    ScaledDigits(value, get_scale_info_fixed(value).divisor, 2)
              /\ scaled_text.suf = get_scale_info_fixed(value).suffix
        /\ value = Dec(-1234, 0) /\ currency_type = "INR" =>
              scaled_text = Text(<<"INR-sign">>, "-", 123, 2, "K")

\* format_scaled_amount(-1234, "INR") prints two minus signs
C11_TwoMinusSigns ==
    /\ pc = "scaled"
    /\ value = Dec(-1234, 0)
    /\ currency_type = "INR"
    /\ scaled_text = Text(<<"INR-sign">>, "--", 123, 2, "K")


----------------------------------------------------------------------------
(* Further properties of the Hierarchy Builder. *)

\* node carries key, and what it carries is a list: not None, not NA
HasList(node, key) ==
    /\ key \in DOMAIN node
    /\ ToString(node[key]) # ToString(NONE)
    /\ ToString(node[key]) # ToString(NA)
    /\ DOMAIN node[key] = 1 .. Len(node[key])

\* C12: in the tree returned by build_bs_nested_hierarchy, every top-level
\* node has a SIGNIFICANT_SOURCES list, every source of an asset/liability
\* category has both a POSITIVE_CUSTOMERS and a NEGATIVE_CUSTOMERS list, and
\* every source of an income/expense category has a SIGNIFICANT_MRLS list;
\* each key is present and holds a (possibly empty) list, never null, never
\* omitted.
C12_ListsAlwaysPresent ==
    Built =>
        \A t \in TopNodes :
            /\ HasList(t, "SIGNIFICANT_SOURCES")
            /\ \A s \in SourcesOf(t) :
                  /\ t.MGT_LINE_DESCRIPTION \in AssetLiability =>
                        /\ HasList(s, "POSITIVE_CUSTOMERS")
                        /\ HasList(s, "NEGATIVE_CUSTOMERS")
                  /\ t.MGT_LINE_DESCRIPTION \in IncomeExpense =>
                        HasList(s, "SIGNIFICANT_MRLS")

\* a tree with a category all of whose sources are excluded, and with an
\* asset source without a counterparty of change >= 0
C12_Witness ==
    /\ pc = "built"
    /\ rows # <<>>
    /\ \E t \in TopNodes : t.SIGNIFICANT_SOURCES = <<>>
    /\ \E t \in TopNodes :
          /\ t.MGT_LINE_DESCRIPTION \in AssetLiability
          /\ \E s \in SourcesOf(t) :
                s.POSITIVE_CUSTOMERS = <<>> /\ s.NEGATIVE_CUSTOMERS # <<>>

\* a tree with an income source without a significant sub-line
C12_WitnessSublines ==
    /\ pc = "built"
    /\ \E t \in TopNodes :
          /\ t.MGT_LINE_DESCRIPTION \in IncomeExpense
          /\ \E s \in SourcesOf(t) : s.SIGNIFICANT_MRLS = <<>>


\* C13: build_bs_nested_hierarchy applied to an input with no rows returns an
\* empty top-level list and raises no exception: the call goes through and
\* its result is the empty list.
C13_NoRowsGiveEmptyTree ==
    /\ pc = "rows" /\ rows = <<>> => ENABLED Build
    /\ pc = "built" /\ rows = <<>> => nested_json = <<>>

\* the tree built from an input with no rows
C13_Witness ==
    /\ pc = "built"
    /\ rows = <<>>
    /\ exclude_lines = {Cash}
    /\ nested_json = <<>>


\* C14: format_nested_amounts leaves the tree passed to it untouched: after
\* the call every node, field value and list order of the input is what it
\* was before the call, and the returned tree shares no node with the input.
C14_InputUntouched ==
    [][pc = "built" => nested_json' = nested_json /\ shared_nodes' = {}]_vars

\* a call that reordered the sources and rendered the amounts in its result,
\* with the input still in its order and still holding the raw change
C14_Witness ==
    /\ pc = "formatted"
    /\ Len(nested_json) = 1
    /\ Len(nested_json[1].SIGNIFICANT_SOURCES) = 2
    /\ SourceLabelsOf(formatted[1]) # SourceLabelsOf(nested_json[1])
    /\ "TL_CHANGE" \in DOMAIN nested_json[1]
    /\ "TL_CHANGE" \notin DOMAIN formatted[1]
    /\ shared_nodes = {}


----------------------------------------------------------------------------
(* Properties of the narration client. *)

\* a slot of results still holding None
Unset(slot) == ToString(slot) = ToString(NONE)

\* the calls whose worker has run to its end
Done == {i \in DOMAIN futures : futures[i].st = "done"}

\* C15: concurrent_llm_calls returns a list as long as the prompt list; under
\* every interleaving of the workers a slot is set exactly when the worker
\* submitted for that index has finished, it then holds what that worker's
\* own call produced for the prompt of that index (the answer to prompts[i]
\* when the exchange delivered one), and no slot is unset at the return.
C15_ResultsInSubmissionOrder ==
    pc \in {"waiting", "returned"} =>
        /\ Len(results) = Len(prompts)
        /\ \A i \in DOMAIN results :
              /\ ~Unset(results[i]) <=> i \in Done
              /\ i \in Done =>
                    /\ futures[i].prompt = prompts[i]
                    /\ results[i] = futures[i].outcome.text
                    /\ futures[i].http.json = "content" =>
                          results[i] = <<"answer to " \o prompts[i]>>
              /\ pc = "returned" => ~Unset(results[i])

\* a returned batch of three different calls, the middle one failed
C15_Witness ==
    /\ pc = "returned"
    /\ prompts = <<"p", "q", "p">>
    /\ max_workers = 2
    /\ results = <<<<"answer to p">>, ErrorText, <<"answer to p">>>>
    /\ futures[3].http.content # futures[1].http.content

\* the second call has finished while the first is still running
C15_WitnessOutOfOrder ==
    /\ pc = "waiting"
    /\ prompts = <<"q", "p", "q">>
    /\ futures[1].st = "running" /\ futures[2].st = "done"
    /\ Unset(results[1]) /\ ~Unset(results[2])
    /\ results[2] = <<"answer to p">>

\* an exchange that did not deliver a body with a content: an exception of
\* the request, a status other than 200, a body without the content
Failed(http) ==
    http.raised # "" \/ http.status # 200 \/ http.json = "malformed"

\* C16: a call whose exchange fails (exception or timeout of the request,
\* status other than 200, body without content) returns the placeholder
\* "[Error generating response]" and raises nothing; in a batch the slot of
\* a failed call (also of one whose content is null) holds the placeholder,
\* no worker ends with an exception, every sibling whose exchange delivered
\* a content holds its own answer, and whatever the others did a running
\* call can finish, a queued one can start when a thread is free, and the
\* batch returns once all have finished.
C16_FailureIsolated ==
    /\ \A p \in PromptTexts : \A http \in Exchanges(p) :
          Failed(http) => call_vllm_completion_or_chat(http) = Returns(ErrorText)
    /\ pc \in {"waiting", "returned"} =>
          \A i \in Done :
             /\ futures[i].outcome.raised = ""
             /\ ~Unset(results[i])
             /\ Failed(futures[i].http) \/ futures[i].http.json = "null"
                   => results[i] = ErrorText
             /\ futures[i].http.json = "content"
                   => results[i] = <<"answer to " \o futures[i].prompt>>
    /\ pc = "waiting" =>
          /\ \A k \in DOMAIN futures :
                /\ futures[k].st = "running" => ENABLED Finish(k)
                /\ (/\ futures[k].st = "queued"
                    /\ \A j \in 1 .. k - 1 : futures[j].st # "queued"
                    /\ Cardinality(Running) < max_workers) => ENABLED Start(k)
          /\ Done = DOMAIN futures => ENABLED Return
          /\ ENABLED NextLlm

\* a returned batch whose first call timed out and whose second got a 500,
\* run by one thread, the third holding its answer
C16_Witness ==
    /\ pc = "returned"
    /\ Len(prompts) = 3
    /\ max_workers = 1
    /\ futures[1].http.raised = "Timeout"
    /\ futures[2].http.status = 500
    /\ futures[3].http.json = "content"
    /\ results = <<ErrorText, ErrorText, <<"answer to " \o prompts[3]>>>>

\* a batch in which a call with a null content has stored the placeholder
\* while a sibling is still running
C16_WitnessNullContent ==
    /\ pc = "waiting"
    /\ \E i, j \in DOMAIN futures :
          /\ futures[i].st = "done" /\ futures[i].http.json = "null"
          /\ results[i] = ErrorText
          /\ futures[j].st = "running"

----------------------------------------------------------------------------
(* Properties of the narration of the tree. *)

FormattedTops == {formatted[i] : i \in DOMAIN formatted}
FormattedSources == UNION {SourcesOf(t) : t \in FormattedTops}
FormattedSublines ==
    UNION {ListOf(s, "SIGNIFICANT_MRLS") : s \in FormattedSources}

Summarised(node) == "SUMMARY" \in DOMAIN node

C17_WitnessBefore ==
    /\ pc = "formatted"
    /\ FormattedSublines # {}
    /\ \A n \in FormattedSources \cup FormattedSublines : ~Summarised(n)

----------------------------------------------------------------------------
(* Properties of the Leakage Aggregator. *)

\* the input rows of a leakage direction: local currency and its balance type
DirectionRows(d) ==
    {i \in DOMAIN leakage_df :
        leakage_df[i].CCY_TYPE = "LCY" /\ leakage_df[i].BAL_TYPE = BalTypeOf(d)}

SocKey(i) == KeyOf(leakage_df[i], soc_group_cols)

\* the compound keys of a direction; a row with a key column left NULL is in
\* no group
DirectionKeys(d) ==
    {SocKey(i) : i \in {j \in DirectionRows(d) :
                          leakage_df[j].SBU_DESCRIPTION # NullLabel}}

RECURSIVE SumAbs(_, _)
\* the sum of the absolute values of a column over the input rows in S
SumAbs(S, col) ==
    IF S = {} THEN 0
    ELSE LET i == CHOOSE x \in S : TRUE
         IN Abs(leakage_df[i][col]) + SumAbs(S \ {i}, col)

GroupRows(d, key) == {i \in DirectionRows(d) : SocKey(i) = key}

\* the position in the input of the first row of a group
FirstRow(d, key) == SetMin(GroupRows(d, key))

TiesByInputOrder(d, k1, k2) == FirstRow(d, k1) < FirstRow(d, k2)
TiesByKey(d, k1, k2) == KeyLess(soc_group_cols, k1, k2)

\* group a ranks before group b: larger current sum, then larger
\* month-to-date sum, then the tie rule
RanksBefore(d, a, b, Tie(_, _, _)) ==
    \/ a.BUSINESS_DAY > b.BUSINESS_DAY
    \/ a.BUSINESS_DAY = b.BUSINESS_DAY /\ a.MTD > b.MTD
    \/ a.BUSINESS_DAY = b.BUSINESS_DAY /\ a.MTD = b.MTD /\ Tie(d, a.key, b.key)

\* the groups of direction d as the statement describes them
DirectionGroups(d) ==
    {[key |-> k, BUSINESS_DAY |-> SumAbs(GroupRows(d, k), "BUSINESS_DAY"),
      MTD |-> SumAbs(GroupRows(d, k), "MTD")] : k \in DirectionKeys(d)}

\* the list returned for d holds the first TOP_N_DEFAULT groups of the ranking
TopRanked(d, Tie(_, _, _)) ==
    LET top == leakage_result[d].agg_list
        listed == {[key |-> top[i].key, BUSINESS_DAY |-> top[i].BUSINESS_DAY,
                    MTD |-> top[i].MTD] : i \in DOMAIN top}
    IN /\ Len(top) <= 3
       /\ Len(top) = 3 \/ Len(top) = Cardinality(DirectionKeys(d))
       /\ Cardinality(listed) = Len(top)
       /\ listed \subseteq DirectionGroups(d)
       /\ \A i, j \in DOMAIN top : i < j => RanksBefore(d, top[i], top[j], Tie)
       /\ \A g \in DirectionGroups(d) \ listed :
             \A i \in DOMAIN top : RanksBefore(d, top[i], g, Tie)

\* C18: for each leakage direction the aggregator returns at most 3 groups,
\* each the sum of the rows sharing one compound key, ranked by summed current
\* amount descending, then summed month-to-date descending, groups equal on
\* both ordered by the position of their first row in the input.
C18_TiesByInputOrder ==
    pc = "aggregated" => \A d \in LeakageTypes : TopRanked(d, TiesByInputOrder)

\* the same ranking with the groups equal on both measures in the ascending
\* order of their compound keys: what the aggregator returns
C18_TiesByKey ==
    pc = "aggregated" => \A d \in LeakageTypes : TopRanked(d, TiesByKey)

\* two overcharge rows with equal amounts, the Retail row first in the input:
\* the Corporate group is returned first
C18_TieAgainstInputOrder ==
    /\ pc = "aggregated"
    /\ leakage_df = <<LeakageRow(Retail, 1, 100, 500, "LCY", 208),
                      LeakageRow(Corporate, 1, 100, 500, "LCY", 208)>>
    /\ leakage_result["overcharge"].agg_list[1].key[1] = Corporate
    /\ leakage_result["overcharge"].agg_list[2].key[1] = Retail

\* five groups of which three are returned
C18_WitnessTopThree ==
    /\ pc = "aggregated"
    /\ Cardinality(DirectionKeys("overcharge")) = 5
    /\ Len(leakage_result["overcharge"].agg_list) = 3
    /\ leakage_result["overcharge"].agg_list[1].key[8] = 1
    /\ leakage_result["overcharge"].agg_list[2].key[8] = 2
    /\ leakage_result["overcharge"].agg_list[3].key[8] = 3

----------------------------------------------------------------------------
(* Exclusion of sources in the Hierarchy Builder. *)

RECURSIVE SumAll(_, _)
\* the sum of a column over the input rows with index in S
SumAll(S, col) ==
    IF S = {} THEN 0
    ELSE LET i == CHOOSE x \in S : TRUE
         IN rows[i][col] + SumAll(S \ {i}, col)

\* the input rows of a category, and its kept rows of one source
CategoryAll(mgt) == {i \in DOMAIN rows : rows[i].MGT_LINE_DESCRIPTION = mgt}
KeptOfSource(mgt, src, desc) ==
    {i \in DOMAIN KeptRows : /\ KeptRows[i].MGT_LINE_DESCRIPTION = mgt
                             /\ KeptRows[i].SOURCE_MGT_LINE = src
                             /\ KeptRows[i].SOURCE_MGT_LINE_DESC = desc}
KeptSources(mgt) ==
    {<<KeptRows[i].SOURCE_MGT_LINE, KeptRows[i].SOURCE_MGT_LINE_DESC>> :
        i \in {j \in DOMAIN KeptRows : KeptRows[j].MGT_LINE_DESCRIPTION = mgt}}

\* C19: in the tree build_bs_nested_hierarchy returns, every category of the
\* input has a top-level node whose current, prior and month-to-date sums are
\* taken over all its input rows, those of excluded sources too; its sources
\* are exactly the sources of its rows that are not excluded, each summed over
\* those rows, and both source counts are their number; the sub-line and
\* counterparty nodes are sums of rows that are not excluded; a category
\* whose sources are all excluded appears with an empty SIGNIFICANT_SOURCES.
C19_ExclusionBelowTopLevel ==
    Built =>
        /\ {t.MGT_LINE_DESCRIPTION : t \in TopNodes}
              = {rows[i].MGT_LINE_DESCRIPTION : i \in DOMAIN rows}
        /\ Cardinality(TopNodes) = Len(nested_json)
        /\ \A t \in TopNodes :
              LET mgt == t.MGT_LINE_DESCRIPTION
                  listed == {<<s.SOURCE_MGT_LINE, s.SOURCE_MGT_LINE_DESC>> :
                                s \in SourcesOf(t)}
              IN /\ t.BUSINESS_DAY = SumAll(CategoryAll(mgt), "BUSINESS_DAY")
                 /\ t.PREVIOUS_DAY = SumAll(CategoryAll(mgt), "PREVIOUS_DAY")
                 /\ t.TL_MTD = SumAll(CategoryAll(mgt), "MTD")
                 /\ listed = KeptSources(mgt)
                 /\ Len(t.SIGNIFICANT_SOURCES) = Cardinality(KeptSources(mgt))
                 /\ t.SOURCES_COUNT = Cardinality(KeptSources(mgt))
                 /\ t.SIGNIFICANT_SOURCES_COUNT = Cardinality(KeptSources(mgt))
                 /\ KeptSources(mgt) = {} => t.SIGNIFICANT_SOURCES = <<>>
                 /\ \A s \in SourcesOf(t) :
                       LET of == KeptOfSource(mgt, s.SOURCE_MGT_LINE,
                                              s.SOURCE_MGT_LINE_DESC)
                       IN /\ s.SOURCE_MGT_LINE_DESC \notin exclude_lines
                          /\ s.BUSINESS_DAY = SumKept(of, "BUSINESS_DAY")
                          /\ s.PREVIOUS_DAY = SumKept(of, "PREVIOUS_DAY")
                          /\ s.SRC_MTD = SumKept(of, "MTD")
                          /\ \A m \in ListOf(s, "SIGNIFICANT_MRLS") :
                                m.MRL_MTD = MtdOfSubline(mgt, s.SOURCE_MGT_LINE,
                                                         m.MRL_LINE)
                          /\ \A c \in ListOf(s, "POSITIVE_CUSTOMERS")
                                      \cup ListOf(s, "NEGATIVE_CUSTOMERS") :
                                \E k \in CounterpartyKeys(mgt, s.SOURCE_MGT_LINE) :
                                    IsNodeOfKey(c, k)

\* a category with a kept and an excluded source: the top-level sum counts
\* both, the one source listed only its own rows
C19_Witness ==
    /\ pc = "built"
    /\ exclude_lines = {Cash}
    /\ \E t \in TopNodes :
          /\ t.MGT_LINE_DESCRIPTION = TotalAssets
          /\ t.BUSINESS_DAY = 1000
          /\ Len(t.SIGNIFICANT_SOURCES) = 1
          /\ t.SIGNIFICANT_SOURCES[1].SOURCE_MGT_LINE_DESC = Loans
          /\ t.SIGNIFICANT_SOURCES[1].BUSINESS_DAY = 500
          /\ t.SOURCES_COUNT = 1

\* a category whose only source is excluded
C19_WitnessAllExcluded ==
    /\ pc = "built"
    /\ \E i \in DOMAIN rows : rows[i].MGT_LINE_DESCRIPTION = TotalAssets
    /\ \E t \in TopNodes :
          /\ t.MGT_LINE_DESCRIPTION = TotalAssets
          /\ t.BUSINESS_DAY = 500
          /\ t.SIGNIFICANT_SOURCES = <<>>
          /\ t.SOURCES_COUNT = 0

----------------------------------------------------------------------------
(* Counterparties of equal change. *)

\* the position among the kept rows of the first row of counterparty key k
FirstSeen(k) == SetMin(RowsOfCounterparty(k))

FirstSeenWins(k1, k2) == FirstSeen(k1) < FirstSeen(k2)
LeastKeyWins(k1, k2) == KeyLess(grp_cols_cust, k1, k2)

\* the key of a list entry among keys
KeyOfEntry(e, keys) == CHOOSE k \in keys : IsNodeOfKey(e, k)

\* in list, cut from the counterparties `keys` of one bucket, an entry wins
\* over every counterparty of the same change left out, and comes before
\* every later entry of the same change, by the rule Wins
TiesResolved(list, keys, Wins(_, _)) ==
    /\ \A i \in DOMAIN list : \E k \in keys : IsNodeOfKey(list[i], k)
    /\ \A i \in DOMAIN list :
          \A o \in keys \ {KeyOfEntry(list[j], keys) : j \in DOMAIN list} :
              ChangeOfKey(o) = list[i].CUST_CHANGE
                  => Wins(KeyOfEntry(list[i], keys), o)
    /\ \A i, j \in DOMAIN list :
          i < j /\ list[i].CUST_CHANGE = list[j].CUST_CHANGE
              => Wins(KeyOfEntry(list[i], keys), KeyOfEntry(list[j], keys))

BucketTies(Wins(_, _)) ==
    \A t \in TopNodes : t.MGT_LINE_DESCRIPTION \in AssetLiability =>
        \A s \in SourcesOf(t) :
           LET keys == CounterpartyKeys(t.MGT_LINE_DESCRIPTION, s.SOURCE_MGT_LINE)
           IN /\ TiesResolved(s.POSITIVE_CUSTOMERS,
                              {k \in keys : ChangeOfKey(k) >= 0}, Wins)
              /\ TiesResolved(s.NEGATIVE_CUSTOMERS,
                              {k \in keys : ChangeOfKey(k) < 0}, Wins)

\* C20: when several counterparties of one (top category, source) have equal
\* change, the POS top-1 and NEG top-2 lists hold the one whose first row
\* comes earliest in the input (first-seen wins).
C20_FirstSeenWins == Built => BucketTies(FirstSeenWins)

\* among counterparties of equal change the lists hold the one of the least
\* grouping key (sub-line code, sub-line label, counterparty id, counterparty
\* name, officer): what the builder returns
C20_LeastKeyWins == Built => BucketTies(LeastKeyWins)

\* counterparty 2 first in the input, counterparty 1 after it, both +1000:
\* POSITIVE_CUSTOMERS holds counterparty 1
C20_LaterRowWins ==
    /\ pc = "built"
    /\ rows = <<CustRow(TotalAssets, 1, Loans, 1, 2, 1000, 0),
                CustRow(TotalAssets, 1, Loans, 1, 1, 1000, 0)>>
    /\ \E s \in SourceNodes :
          /\ Len(s.POSITIVE_CUSTOMERS) = 1
          /\ s.POSITIVE_CUSTOMERS[1].CUSTOMER_ID = 1
          /\ s.POSITIVE_CUSTOMERS[1].CUST_CHANGE = 1000

\* three counterparties of change -500, in the input in descending key order:
\* NEGATIVE_CUSTOMERS holds the two of least key, the last two of the input
C20_LaterRowsWinNegative ==
    /\ pc = "built"
    /\ rows = <<CustRow(TotalAssets, 1, Loans, 2, 2, 0, 500),
                CustRow(TotalAssets, 1, Loans, 1, 2, 0, 500),
                CustRow(TotalAssets, 1, Loans, 1, 1, 0, 500)>>
    /\ \E s \in SourceNodes :
          /\ Len(s.NEGATIVE_CUSTOMERS) = 2
          /\ s.NEGATIVE_CUSTOMERS[1].CUSTOMER_ID = 1
          /\ s.NEGATIVE_CUSTOMERS[2].CUSTOMER_ID = 2
          /\ s.NEGATIVE_CUSTOMERS[2].MRL_DESCRIPTION = MrlLabel(1)

----------------------------------------------------------------------------
(* Order of the sources and sub-lines in the built tree. *)

\* list is in non-increasing order of the absolute value of the field key
NonIncreasingAbs(list, key) ==
    \A i, j \in DOMAIN list : i < j => Abs(list[i][key]) >= Abs(list[j][key])

----------------------------------------------------------------------------
(* The source counts of a top-level node. *)

C22_WitnessNone ==
    /\ pc = "built"
    /\ \E t \in TopNodes :
          /\ t.SOURCES_COUNT = 0 /\ t.SIGNIFICANT_SOURCES_COUNT = 0
          /\ t.SIGNIFICANT_SOURCES = <<>>

----------------------------------------------------------------------------
(* Direction of the rendered change. *)

\* the nodes that had a change before they were rendered
ChangePairs == {p \in NodePairs : ChangeKeys \cap DOMAIN p[1] # {}}

\* C23: every formatted node that had a non-null change carries exactly one
\* of Increase_Amount and Decrease_Amount, Decrease_Amount when the change is
\* negative and Increase_Amount when it is zero or positive; the rendered
\* amount has 0 decimals and no minus sign.
C23_OneSignlessChangeAmount ==
    pc = "formatted" =>
        \A p \in ChangePairs :
            /\ ("Increase_Amount" \in DOMAIN p[2])
                  # ("Decrease_Amount" \in DOMAIN p[2])
            /\ "Decrease_Amount" \in DOMAIN p[2] <=> ChangeOf(p[1]) < 0
            /\ "Increase_Amount" \in DOMAIN p[2] <=> ChangeOf(p[1]) >= 0
            /\ ChangeTextOf(p[2]).dec = 0
            /\ ChangeTextOf(p[2]).sign = ""

\* a formatted tree with a falling node and a rising node
C23_Witness ==
    /\ pc = "formatted"
    /\ \E p \in ChangePairs :
          /\ ChangeOf(p[1]) < 0
          /\ "Decrease_Amount" \in DOMAIN p[2]
          /\ p[2].Decrease_Amount.sign = ""
          /\ p[2].Decrease_Amount.mag # 0
    /\ \E p \in ChangePairs :
          ChangeOf(p[1]) > 0 /\ "Increase_Amount" \in DOMAIN p[2]

\* a formatted node without change: it counts as an increase
C23_WitnessNoChange ==
    /\ pc = "formatted"
    /\ \E p \in ChangePairs :
          /\ ChangeOf(p[1]) = 0
          /\ "Increase_Amount" \in DOMAIN p[2]
          /\ "Decrease_Amount" \notin DOMAIN p[2]

\* the direction a formatted node gives under the keys <Direction>_<what>
DirectionsOf(node, what) ==
    {d \in {"Increase", "Decrease"} :
        (IF what = "Amount"
         THEN IF d = "Increase" THEN "Increase_Amount" ELSE "Decrease_Amount"
         ELSE IF d = "Increase" THEN "Increase_Percentage"
              ELSE "Decrease_Percentage") \in DOMAIN node}

\* C24: in every formatted node that carries both an amount key and a
\* percentage key the two give the same direction, whatever the signs of the
\* current and the prior sum.
C24_PercentageFollowsAmount ==
    pc = "formatted" =>
        \A p \in NodePairs :
            DirectionsOf(p[2], "Amount") # {}
            /\ DirectionsOf(p[2], "Percentage") # {}
                => DirectionsOf(p[2], "Percentage")
                       = DirectionsOf(p[2], "Amount")

\* the same for the nodes whose prior sum is above zero
C24_PercentageFollowsAmountPositivePrior ==
    pc = "formatted" =>
        \A p \in NodePairs :
            p[1].PREVIOUS_DAY > 0
                => DirectionsOf(p[2], "Percentage")
                       = DirectionsOf(p[2], "Amount")

\* a node that rose from a negative prior sum: Increase_Amount beside
\* Decrease_Percentage
C24_RiseShownAsFallingPercentage ==
    /\ pc = "formatted"
    /\ \E p \in NodePairs :
          /\ p[1].PREVIOUS_DAY < 0 /\ ChangeOf(p[1]) > 0
          /\ "Increase_Amount" \in DOMAIN p[2]
          /\ "Decrease_Percentage" \in DOMAIN p[2]

\* a node that fell from a negative prior sum: Decrease_Amount beside
\* Increase_Percentage
C24_FallShownAsRisingPercentage ==
    /\ pc = "formatted"
    /\ \E p \in NodePairs :
          /\ p[1].PREVIOUS_DAY < 0 /\ ChangeOf(p[1]) < 0
          /\ "Decrease_Amount" \in DOMAIN p[2]
          /\ "Increase_Percentage" \in DOMAIN p[2]

----------------------------------------------------------------------------
(* The two presentation copies of an amount. *)

\* a rendered amount or a literal string, not the raw number
IsRendered(v) == ToString(v) = ToString(Literal("N/A")) \/ "dec" \in DOMAIN v

\* the node after rendering holds a string under k and, under <k>_FIX, the
\* value of k at the scale the fixed-scale policy picks for that value, with
\* 2 decimals
BothCopies(before, after, k) ==
    /\ k \in DOMAIN after
    /\ ToString(after[k]) # ToString(before[k])
    /\ IsRendered(after[k])
    /\ FixKey(k) \in DOMAIN after
    /\ after[FixKey(k)]
          = format_fixed_scale(currency_type, Dec(before[k], 0),
                get_scale_info_fixed(Dec(before[k], 0)).divisor,
                get_scale_info_fixed(Dec(before[k], 0)).suffix, 2)

\* C25: every node of the formatted tree holds, for each of BUSINESS_DAY,
\* PREVIOUS_DAY, TL_MTD, SRC_MTD and MRL_MTD present on it, a formatted string
\* under the original field name and a second one under <field>_FIX, at the
\* fixed scale of that field's own value with 2 decimals.
C25_BothCopiesOfEveryAmount ==
    pc = "formatted" =>
        \A p \in NodePairs :
            \A k \in amount_keys \cap DOMAIN p[1] : BothCopies(p[1], p[2], k)

\* the same with the month-to-date amount of the sub-line nodes left out
C25_BothCopiesButSubline ==
    pc = "formatted" =>
        \A p \in NodePairs :
            \A k \in (amount_keys \ {"MRL_MTD"}) \cap DOMAIN p[1] :
                BothCopies(p[1], p[2], k)

\* a formatted sub-line node without MRL_MTD_FIX, whose other amounts have
\* both copies; the fixed copy is at the scale of the amount, not of the
\* change
C25_SublineWithoutFixedCopy ==
    /\ pc = "formatted"
    /\ \E p \in ChildPairs("SIGNIFICANT_MRLS") :
          /\ "MRL_MTD" \in DOMAIN p[2]
          /\ "MRL_MTD_FIX" \notin DOMAIN p[2]
          /\ ToString(p[2].MRL_MTD) = ToString(p[1].MRL_MTD)
          /\ BothCopies(p[1], p[2], "BUSINESS_DAY")
          /\ BothCopies(p[1], p[2], "PREVIOUS_DAY")
          /\ p[2].PREVIOUS_DAY_FIX.suf # ChangeTextOf(p[2]).suf

----------------------------------------------------------------------------
(* Totals and per-segment subtotals of the Leakage Aggregator. *)

\* the rows of a direction that name a segment, and those of one segment
SegmentedRows(d) ==
    {i \in DirectionRows(d) : leakage_df[i].SBU_DESCRIPTION # NullLabel}
SegmentRows(d, sbu) ==
    {i \in DirectionRows(d) : leakage_df[i].SBU_DESCRIPTION = sbu}

RECURSIVE SumSubtotals(_, _, _)
\* the sum of a column of the per-segment subtotals over the segments in S
SumSubtotals(totals, S, col) ==
    IF S = {} THEN 0
    ELSE LET sbu == CHOOSE x \in S : TRUE
         IN totals[sbu][col] + SumSubtotals(totals, S \ {sbu}, col)

\* totals.today and totals.mtd of direction d are the sums of |BUSINESS_DAY|
\* and |MTD| over exactly the rows in local currency of its balance type
TotalsOfDirection(d) ==
    /\ leakage_result[d].totals.today
          = SumAbs(DirectionRows(d), "BUSINESS_DAY")
    /\ leakage_result[d].totals.mtd = SumAbs(DirectionRows(d), "MTD")

\* there is one subtotal per segment named by a row of d, the sum over the
\* rows of that segment
SubtotalsOfDirection(d) ==
    LET sub == leakage_result[d].sbu_totals IN
    /\ DOMAIN sub = {leakage_df[i].SBU_DESCRIPTION : i \in SegmentedRows(d)}
    /\ \A sbu \in DOMAIN sub :
          /\ sub[sbu].BUSINESS_DAY = SumAbs(SegmentRows(d, sbu), "BUSINESS_DAY")
          /\ sub[sbu].MTD = SumAbs(SegmentRows(d, sbu), "MTD")

\* the subtotals of d add up to its totals
SubtotalsAddUp(d) ==
    LET sub == leakage_result[d].sbu_totals IN
    /\ SumSubtotals(sub, DOMAIN sub, "BUSINESS_DAY")
          = leakage_result[d].totals.today
    /\ SumSubtotals(sub, DOMAIN sub, "MTD") = leakage_result[d].totals.mtd

\* C26: for each leakage direction (overcharge = BAL_TYPE 208, undercharge =
\* BAL_TYPE 207) totals.today and totals.mtd are the sums of the absolute
\* values of BUSINESS_DAY and MTD over exactly the rows with CCY_TYPE = LCY and
\* that BAL_TYPE, and the per-segment subtotals of the direction add up to its
\* totals.
C26_SubtotalsAddUpToTotals ==
    pc = "aggregated" =>
        \A d \in LeakageTypes :
            TotalsOfDirection(d) /\ SubtotalsOfDirection(d) /\ SubtotalsAddUp(d)

\* what the aggregator returns: the totals are those sums; each subtotal is
\* the sum over the rows of its segment, and the subtotals add up to the
\* totals of a direction whose rows all name a segment.
C26_TotalsAndSubtotals ==
    pc = "aggregated" =>
        \A d \in LeakageTypes :
            /\ TotalsOfDirection(d)
            /\ SubtotalsOfDirection(d)
            /\ SegmentedRows(d) = DirectionRows(d) => SubtotalsAddUp(d)

\* two segments whose subtotals add up to the totals, beside rows of another
\* currency and another balance type that count nowhere
C26_Witness ==
    /\ pc = "aggregated"
    /\ \E d \in LeakageTypes :
          /\ Cardinality(DOMAIN leakage_result[d].sbu_totals) = 2
          /\ SegmentedRows(d) = DirectionRows(d)
          /\ leakage_result[d].totals.today > 0
          /\ \E i \in DirectionRows(d) : leakage_df[i].BUSINESS_DAY < 0

\* foreign-currency and other-balance rows leave the totals alone
C26_WitnessOtherRows ==
    /\ pc = "aggregated"
    /\ leakage_df = ExampleLeakage
    /\ leakage_result["overcharge"].totals = [today |-> 1300, mtd |-> 60]
    /\ leakage_result["undercharge"].totals = [today |-> 0, mtd |-> 0]

\* an overcharge row without segment: it counts in the totals and in no
\* subtotal
C26_RowWithoutSegment ==
    /\ pc = "aggregated"
    /\ leakage_df = ExampleNoSegment
    /\ leakage_result["overcharge"].totals = [today |-> 150, mtd |-> 15]
    /\ leakage_result["overcharge"].sbu_totals
          = (<<"S","M","E">> :> [BUSINESS_DAY |-> 100, MTD |-> 10])

----------------------------------------------------------------------------
(* The absent percentage change in the formatter. *)

\* the percentage change of a node before rendering
PctOf(node) == node[CHOOSE k \in PctChangeKeys : k \in DOMAIN node]

\* the nodes whose percentage change is the absent value
AbsentPctPairs ==
    {p \in NodePairs : PctChangeKeys \cap DOMAIN p[1] # {} /\ PctOf(p[1]) = NA}

\* the amount fields _format_dict goes through are rendered
AmountsFormatted(before, after) ==
    \A k \in FormatDictAmountKeys \cap DOMAIN before :
        /\ ToString(after[k]) # ToString(before[k])
        /\ FixKey(k) \in DOMAIN after

\* C27: a formatted node whose percentage change was the absent value (prior
\* sum zero) has neither an Increase_Percentage nor a Decrease_Percentage key,
\* and its amount fields are formatted.
C27_AbsentPctGivesNoKey ==
    pc = "formatted" =>
        \A p \in AbsentPctPairs :
            /\ DirectionsOf(p[2], "Percentage") = {}
            /\ AmountsFormatted(p[1], p[2])

\* what the formatter does with the absent value: it is rendered, as an
\* increase, and the amount fields are formatted
C27_AbsentPctRendered ==
    pc = "formatted" =>
        \A p \in AbsentPctPairs :
            /\ DirectionsOf(p[2], "Percentage") = {"Increase"}
            /\ p[2].Increase_Percentage = Literal("<NA>%")
            /\ AmountsFormatted(p[1], p[2])

\* a node that fell from a prior sum of zero: Decrease_Amount beside an
\* Increase_Percentage that is no number
C27_AbsentPctShownAsIncrease ==
    /\ pc = "formatted"
    /\ \E p \in AbsentPctPairs :
          /\ p[1].PREVIOUS_DAY = 0
          /\ "Decrease_Amount" \in DOMAIN p[2]
          /\ p[2].Increase_Percentage = Literal("<NA>%")

----------------------------------------------------------------------------
(* Sources of equal priority rank through builder and formatter. *)

\* what identifies a source within its category
SourceId(src) == <<src.SOURCE_MGT_LINE, src.SOURCE_MGT_LINE_DESC>>
SourceIdsOf(t) ==
    [j \in DOMAIN t.SIGNIFICANT_SOURCES |-> SourceId(t.SIGNIFICANT_SOURCES[j])]

\* the node of the built tree for a category, and the place of a source in it
BuiltTop(mgt) == CHOOSE t \in TopNodes : t.MGT_LINE_DESCRIPTION = mgt
BuiltPlace(mgt, id) ==
    CHOOSE j \in DOMAIN BuiltTop(mgt).SIGNIFICANT_SOURCES :
        SourceId(BuiltTop(mgt).SIGNIFICANT_SOURCES[j]) = id
BuiltSource(mgt, id) == BuiltTop(mgt).SIGNIFICANT_SOURCES[BuiltPlace(mgt, id)]

\* the magnitude the builder orders the sources of a category by
BuilderMagnitude(mgt, src) ==
    IF mgt \in AssetLiability THEN Abs(src.SRC_CHANGE) ELSE Abs(src.SRC_MTD)

\* the sources a and b of a formatted node of category mgt, a listed before
\* b, are in the order the builder gave them
InBuilderOrder(mgt, a, b) ==
    /\ BuiltPlace(mgt, SourceId(a)) < BuiltPlace(mgt, SourceId(b))
    /\ BuilderMagnitude(mgt, BuiltSource(mgt, SourceId(a)))
          >= BuilderMagnitude(mgt, BuiltSource(mgt, SourceId(b)))

\* C28: after build_bs_nested_hierarchy and format_nested_amounts, two sources
\* of one category with the same priority rank are in the relative order the
\* builder gave them, by non-increasing |source change| for asset/liability
\* and non-increasing |source month-to-date| for income/expense; the sources
\* of a category outside the four named ones keep the builder's order
\* entirely.
C28_EqualRankKeepsBuilderOrder ==
    pc = "formatted" /\ rows # <<>> =>
        \A f \in FormattedTops :
            LET mgt == f.MGT_LINE_DESCRIPTION
                srcs == f.SIGNIFICANT_SOURCES
            IN IF mgt \in Range(NamedCategories)
               THEN \A i, j \in DOMAIN srcs :
                       i < j /\ get_source_priority(srcs[i], mgt)
                                   = get_source_priority(srcs[j], mgt)
                           => InBuilderOrder(mgt, srcs[i], srcs[j])
               ELSE SourceIdsOf(f) = SourceIdsOf(BuiltTop(mgt))

\* Total Assets built as [Advances 900, " loans " 500, Mortgages 100, Loans
\* 10] and formatted as [" loans ", Loans, Advances, Mortgages]; the sources
\* of OtherX stay [Loans 700, Overdrafts 10] or [Overdrafts, Loans], as built
C28_Witness ==
    /\ pc = "formatted"
    /\ rows = ExampleEqualRank
    /\ SourceLabelsOf(BuiltTop(TotalAssets))
          = <<OtherY, LoansPadded, Mortgages, Loans>>
    /\ \E f \in FormattedTops :
          /\ f.MGT_LINE_DESCRIPTION = TotalAssets
          /\ SourceLabelsOf(f) = <<LoansPadded, Loans, OtherY, Mortgages>>
    /\ \E f \in FormattedTops :
          /\ f.MGT_LINE_DESCRIPTION = OtherX
          /\ Len(f.SIGNIFICANT_SOURCES) = 2
          /\ SourceLabelsOf(f) = SourceLabelsOf(BuiltTop(OtherX))

----------------------------------------------------------------------------
(* Return of summarize_bs_movements. *)

\* the tree has a category of the balance sheet and one of the income
\* statement
BothStatements ==
    /\ balance_sheet_items(formatted) # {}
    /\ income_statement_items(formatted) # {}

\* C29: summarize_bs_movements returns its summaries and the tree without
\* raising for every formatted tree, the empty tree and a tree without
\* asset/liability category or without income/expense category among them:
\* when it raises, the tree is not the reason.
C29_ReturnsForEveryTree == pc = "raised" => BothStatements

\* what the agent does: it returns only for a tree with both kinds of
\* category
C29_ReturnsWithBothStatements == pc = "summarized" => BothStatements

\* a tree with both kinds of category, narrated and returned
C29_Returned ==
    /\ pc = "summarized"
    /\ BothStatements
    /\ \E n \in FormattedSources : Summarised(n)

\* a tree without income/expense category: its sources are narrated, then
\* the return statement raises
C29_RaisedAfterNarration ==
    /\ pc = "raised"
    /\ balance_sheet_items(formatted) # {}
    /\ income_statement_items(formatted) = {}
    /\ FormattedSources # {}
    /\ \A n \in FormattedSources : Summarised(n)

\* the empty tree: raised
C29_RaisedOnEmptyTree == pc = "raised" /\ rows = <<>> /\ formatted = <<>>

----------------------------------------------------------------------------
(* The lists zipped into the leakage report. *)

\* the three lists of direction d have one length
EqualLengths(d) ==
    /\ Len(business_line[d].agg_list) = Len(business_line[d].summary_list)
    /\ Len(business_line[d].summary_list) = Len(recommendations[d])

\* the report of direction d has a block for every ranked group, the i-th
\* block holding the i-th group
EveryGroupReported(d) ==
    /\ Len(report[d]) = Len(leakage_result[d].agg_list)
    /\ \A i \in DOMAIN report[d] : report[d][i][1] = leakage_result[d].agg_list[i]

\* agent_business_line_summary caught an error for direction d
Caught(d) == business_line[d].header = "Error generating"

\* C30: in run_ra_summary_pipeline, for each leakage direction the list of
\* aggregation blocks, the list of business-line summaries and the list of
\* recommendations zipped into the report have equal length on every path,
\* those where an agent catches an error too, and no group is dropped from
\* the report.
C30_ZippedListsEqualLength ==
    /\ pc \in {"recommended", "assembled"} =>
          \A d \in LeakageTypes : EqualLengths(d)
    /\ pc = "assembled" => \A d \in LeakageTypes : EveryGroupReported(d)

\* the same on the paths where agent_business_line_summary catches no error
C30_EqualLengthUnlessCaught ==
    /\ pc \in {"recommended", "assembled"} =>
          \A d \in LeakageTypes : ~Caught(d) => EqualLengths(d)
    /\ pc = "assembled" =>
          \A d \in LeakageTypes : ~Caught(d) => EveryGroupReported(d)

\* three overcharge groups, an error caught by agent_business_line_summary:
\* no block, one summary, one recommendation, and an empty report
C30_GroupsDropped ==
    /\ pc = "assembled"
    /\ Len(leakage_result["overcharge"].agg_list) = 3
    /\ business_line["overcharge"].agg_list = <<>>
    /\ business_line["overcharge"].summary_list = << <<"Error: RuntimeError">> >>
    /\ Len(recommendations["overcharge"]) = 1
    /\ report["overcharge"] = <<>>

\* two overcharge groups reported with their narrations and cleaned
\* recommendations, while generate_recommendations caught an error for the
\* undercharge group and left its recommendation empty
C30_Reported ==
    /\ pc = "assembled"
    /\ Len(report["overcharge"]) = 2
    /\ \A i \in 1 .. 2 :
          report["overcharge"][i]
              = <<leakage_result["overcharge"].agg_list[i],
                  <<"summary of #" \o ToString(i)>>,
                  <<"act on #" \o ToString(i)>> >>
    /\ Len(report["undercharge"]) = 1
    /\ report["undercharge"][1][2] = <<"summary of #1">>
    /\ report["undercharge"][1][3] = <<>>
=============================================================================
